---------------------------- MODULE Spec2Model ----------------------------
(***************************************************************************)
(* Model of the anti-filter-bridge tunnel client (src/client.py): the      *)
(* SOCKS5 ingress (handle_client, _socks5_handshake, _get_target_address), *)
(* the relay loop over the one shared websocket (traffic_through_tunnel)   *)
(* and the session lifecycle (connect_to_server, start, run, _reconnect,   *)
(* stop).                                                                  *)
(*                                                                         *)
(* Bytes are naturals 0..255.  Text (host names, hex strings) is a         *)
(* sequence of ASCII code points.  A local TCP connection delivers its     *)
(* bytes in segments and StreamReader.read(n) returns what is buffered, at *)
(* most n bytes.                                                           *)
(***************************************************************************)
EXTENDS Naturals, Integers, Sequences, FiniteSets, TLC

(* ------------------------------ bounds -------------------------------- *)
\* local SOCKS5 connections the environment may open
NumConns == 2
\* websocket sessions connect_to_server may establish in one behaviour
MaxSessions == 2
\* SOCKS5 listeners asyncio.start_server may create in one behaviour
MaxListeners == 2

(* ------------------------- program constants -------------------------- *)
\* TunnelClient.max_reconnect_attempts
max_reconnect_attempts == 5
\* TunnelClient.reconnect_delay, seconds
reconnect_delay == 5
\* run(): asyncio.sleep(5) after a failed connect_to_server or an error
RetrySleep == 5
\* _reconnect(): delay = min(5 * attempts, 60)
ReconnectStep == 5
ReconnectCap == 60
\* reader.read(4096) in traffic_through_tunnel
ReadChunk == 4096

Conns == 1..NumConns
Sessions == 1..MaxSessions

\* Python None, as a host (a text) and as a port
NoneHost == <<-1>>
NonePort == -1

Min(a, b) == IF a <= b THEN a ELSE b

\* the element of a set of one element.  The({e(x) : x \in {v}}) is e of
\* the value of v.
The(S) == CHOOSE x \in S : TRUE

(* ------------------------------ text ---------------------------------- *)
RECURSIVE FlattenRange(_, _, _)
\* the concatenation of ss[lo], ..., ss[hi], by halves
FlattenRange(ss, lo, hi) ==
    IF lo > hi THEN <<>>
    ELSE IF lo = hi THEN ss[lo]
    ELSE The({FlattenRange(ss, lo, m) \o FlattenRange(ss, m + 1, hi) :
              m \in {(lo + hi) \div 2}})
\* the concatenation of a sequence of sequences
Flatten(ss) == The({FlattenRange(t, 1, Len(t)) : t \in {ss}})

\* the first n elements of s (all of s when it is shorter)
Take(s, n) == SubSeq(s, 1, Min(n, Len(s)))
\* s without its first n elements
Drop(s, n) == SubSeq(s, Min(n, Len(s)) + 1, Len(s))

RECURSIVE DecStr(_)
\* str(n) for a natural n: decimal digits, no leading zero
DecStr(n) == IF n < 10 THEN <<48 + n>> ELSE DecStr(n \div 10) \o <<48 + (n % 10)>>

\* socket.inet_ntop(AF_INET, addr) for 4 bytes: "a.b.c.d"
InetNtop4(addr) ==
    DecStr(addr[1]) \o <<46>> \o DecStr(addr[2]) \o <<46>>
        \o DecStr(addr[3]) \o <<46>> \o DecStr(addr[4])

\* one hexadecimal digit 0..15 as a lower-case character
HexChar(d) == IF d < 10 THEN 48 + d ELSE 87 + d

RECURSIVE HexStr(_)
\* "%x" of a natural: lower-case hexadecimal digits, no leading zero
HexStr(n) ==
    IF n < 16 THEN <<HexChar(n)>> ELSE HexStr(n \div 16) \o <<HexChar(n % 16)>>

\* the eight 16-bit groups of a 16-byte address
Words(addr) == [i \in 1..8 |-> 256 * addr[2 * i - 1] + addr[2 * i]]

RECURSIVE ZeroRun(_, _)
\* how many zero groups follow one another from group b on
ZeroRun(w, b) == IF b > 8 THEN 0 ELSE IF w[b] # 0 THEN 0 ELSE 1 + ZeroRun(w, b + 1)

\* the run of zero groups "::" stands for: the longest of at least two
\* groups, the first of several that long; base 0 when there is none
BestRun(w) ==
    LET starts == {b \in 1..8 : w[b] = 0 /\ (b = 1 \/ w[b - 1] # 0) /\ ZeroRun(w, b) >= 2}
    IN IF starts = {} THEN [base |-> 0, len |-> 0]
       ELSE LET b == CHOOSE x \in starts : \A y \in starts :
                        \/ ZeroRun(w, x) > ZeroRun(w, y)
                        \/ ZeroRun(w, x) = ZeroRun(w, y) /\ x <= y
            IN [base |-> b, len |-> ZeroRun(w, b)]

RECURSIVE Ntop6From(_, _, _, _)
\* the text of groups i..8: groups of the best run are left out behind one
\* colon, an address that embeds an IPv4 address ends in dotted form
Ntop6From(addr, w, best, i) ==
    IF i > 8 THEN (IF best.base # 0 /\ best.base + best.len = 9 THEN <<58>> ELSE <<>>)
    ELSE IF best.base # 0 /\ i >= best.base /\ i < best.base + best.len
      THEN (IF i = best.base THEN <<58>> ELSE <<>>) \o Ntop6From(addr, w, best, i + 1)
    ELSE (IF i # 1 THEN <<58>> ELSE <<>>) \o
         (IF i = 7 /\ best.base = 1 /\ (best.len = 6 \/ (best.len = 5 /\ w[6] = 65535))
            THEN InetNtop4(SubSeq(addr, 13, 16))
            ELSE HexStr(w[i]) \o Ntop6From(addr, w, best, i + 1))

\* socket.inet_ntop(AF_INET6, addr) for 16 bytes, as the C library writes it
InetNtop6(addr) == Ntop6From(addr, Words(addr), BestRun(Words(addr)), 1)

\* bytes.decode('ascii') succeeds iff every byte is below 128, and then maps
\* each byte to the code point of the same number
AsciiOk(bs) == \A i \in 1..Len(bs) : bs[i] < 128
AsciiDecode(bs) == bs

RECURSIVE FromBytesBig(_)
\* int.from_bytes(bs, 'big'); 0 for the empty string
FromBytesBig(bs) ==
    IF bs = <<>> THEN 0
    ELSE 256 * FromBytesBig(SubSeq(bs, 1, Len(bs) - 1)) + bs[Len(bs)]

\* the value of a hexadecimal character as bytes.fromhex() reads it
\* (digits, lower and upper case letters); -1 for any other character
HexVal(ch) ==
    IF ch >= 48 /\ ch <= 57 THEN ch - 48
    ELSE IF ch >= 97 /\ ch <= 102 THEN ch - 87
    ELSE IF ch >= 65 /\ ch <= 70 THEN ch - 55
    ELSE -1

\* a hex writer that puts the low nibble of each byte first, which
\* bytes.hex() does not
HexLowFirst(bs) ==
    Flatten([i \in 1..Len(bs) |-> <<HexChar(bs[i] % 16), HexChar(bs[i] \div 16)>>])

\* bytes.hex(): two characters per byte, high nibble first
Hex(bs) ==
    Flatten([i \in 1..Len(bs) |-> <<HexChar(bs[i] \div 16), HexChar(bs[i] % 16)>>])

\* bytes.fromhex() raises ValueError on an odd length or a non-hex character
FromHexOk(t) ==
    /\ Len(t) % 2 = 0
    /\ \A i \in 1..Len(t) : HexVal(t[i]) >= 0

RECURSIVE FromHex(_)
\* bytes.fromhex(): each pair of characters is one byte, high nibble first
FromHex(t) ==
    IF Len(t) < 2 THEN <<>>
    ELSE <<16 * HexVal(t[1]) + HexVal(t[2])>> \o FromHex(Drop(t, 2))

(* ------------------------------ JSON ---------------------------------- *)
\* A JSON value of the messages: a string, an integer or null.
JStr(s) == [t |-> "str", s |-> s, n |-> 0]
JInt(n) == [t |-> "int", s |-> <<>>, n |-> n]
JNull == [t |-> "null", s |-> <<>>, n |-> 0]
\* a member of a JSON object: its key (a text) and its value
Member(key, val) == [key |-> key, val |-> val]

\* the four hexadecimal digits of "\uXXXX" for a code point below 65536
Hex4(ch) ==
    <<HexChar(ch \div 4096), HexChar((ch \div 256) % 16),
      HexChar((ch \div 16) % 16), HexChar(ch % 16)>>

\* json.dumps of one character of a string (ensure_ascii): quote and
\* backslash are escaped, \n \r \t \b \f have short forms, every other
\* character outside ' '..'~' is written as \uXXXX
JsonChar(ch) ==
    IF ch = 34 THEN <<92, 34>>
    ELSE IF ch = 92 THEN <<92, 92>>
    ELSE IF ch = 10 THEN <<92, 110>>
    ELSE IF ch = 13 THEN <<92, 114>>
    ELSE IF ch = 9 THEN <<92, 116>>
    ELSE IF ch = 8 THEN <<92, 98>>
    ELSE IF ch = 12 THEN <<92, 102>>
    ELSE IF ch < 32 \/ ch > 126 THEN <<92, 117>> \o Hex4(ch)
    ELSE <<ch>>

\* json.dumps of a string
JsonString(s) ==
    The({<<34>> \o Flatten([i \in 1..Len(t) |-> JsonChar(t[i])]) \o <<34>> : t \in {s}})

\* json.dumps of a value: "null", decimal digits, or a quoted string
JsonValue(v) ==
    IF v.t = "null" THEN <<110, 117, 108, 108>>
    ELSE IF v.t = "int" THEN (IF v.n < 0 THEN <<45>> \o DecStr(-v.n) ELSE DecStr(v.n))
    ELSE JsonString(v.s)

RECURSIVE JsonMembers(_)
\* the members of an object, each as key: value, separated by ", "
JsonMembers(ms) ==
    IF ms = <<>> THEN <<>>
    ELSE JsonString(Head(ms).key) \o <<58, 32>> \o JsonValue(Head(ms).val)
            \o (IF Len(ms) > 1 THEN <<44, 32>> ELSE <<>>) \o JsonMembers(Tail(ms))

\* json.dumps of a dict, given as the sequence of its members
JsonDumps(ms) == <<123>> \o JsonMembers(ms) \o <<125>>

\* the result of a parsing step: whether it succeeded, the value parsed, the
\* text parsed (for a string), and the index behind what was consumed
Parsed(val, next) == [ok |-> TRUE, val |-> val, next |-> next]
NoParse == [ok |-> FALSE, val |-> JNull, next |-> 0]

\* the character a short escape stands for; -1 when there is no such escape
Unescape(ch) ==
    IF ch = 34 \/ ch = 92 \/ ch = 47 THEN ch
    ELSE IF ch = 110 THEN 10
    ELSE IF ch = 114 THEN 13
    ELSE IF ch = 116 THEN 9
    ELSE IF ch = 98 THEN 8
    ELSE IF ch = 102 THEN 12
    ELSE -1

RECURSIVE ParseChars(_, _, _)
\* json.loads inside a string, from index i, acc being what was read so far:
\* up to the closing quote; control characters must be escaped
ParseChars(t, i, acc) ==
    IF i > Len(t) THEN NoParse
    ELSE IF t[i] = 34 THEN Parsed(JStr(acc), i + 1)
    ELSE IF t[i] = 92 THEN
        IF i + 1 > Len(t) THEN NoParse
        ELSE IF t[i + 1] = 117 THEN
            IF i + 5 <= Len(t) /\ FromHexOk(SubSeq(t, i + 2, i + 5))
              THEN ParseChars(t, i + 6, Append(acc, FromBytesBig(FromHex(SubSeq(t, i + 2, i + 5)))))
              ELSE NoParse
        ELSE IF Unescape(t[i + 1]) >= 0
          THEN ParseChars(t, i + 2, Append(acc, Unescape(t[i + 1])))
        ELSE NoParse
    ELSE IF t[i] < 32 THEN NoParse
    ELSE ParseChars(t, i + 1, Append(acc, t[i]))

RECURSIVE ParseDigits(_, _, _)
\* json.loads of the digits of an integer from index i, n being their value
\* so far
ParseDigits(t, i, n) ==
    IF i <= Len(t) /\ t[i] >= 48 /\ t[i] <= 57
      THEN ParseDigits(t, i + 1, 10 * n + (t[i] - 48))
      ELSE Parsed(JInt(n), i)

RECURSIVE SkipSpace(_, _)
\* the index of the first character from i on that is no white space
SkipSpace(t, i) ==
    IF i <= Len(t) /\ t[i] \in {32, 9, 10, 13} THEN SkipSpace(t, i + 1) ELSE i

\* json.loads of a value at index i: a string, null, or an integer (the
\* values the messages of this protocol carry)
ParseValue(t, i) ==
    IF i > Len(t) THEN NoParse
    ELSE IF t[i] = 34 THEN ParseChars(t, i + 1, <<>>)
    ELSE IF i + 3 <= Len(t) /\ SubSeq(t, i, i + 3) = <<110, 117, 108, 108>>
      THEN Parsed(JNull, i + 4)
    ELSE IF t[i] >= 48 /\ t[i] <= 57 THEN ParseDigits(t, i, 0)
    ELSE IF t[i] = 45 /\ i + 1 <= Len(t) /\ t[i + 1] >= 48 /\ t[i + 1] <= 57
      THEN The({Parsed(JInt(-p.val.n), p.next) : p \in {ParseDigits(t, i + 1, 0)}})
    ELSE NoParse

\* json.loads of a key at index i and of the colon behind it: the key, and
\* the index where its value begins
ParseKey(t, i) ==
    IF i > Len(t) THEN NoParse
    ELSE IF t[i] # 34 THEN NoParse
    ELSE The({IF ~k.ok THEN NoParse
              ELSE The({IF c <= Len(t) /\ t[c] = 58
                          THEN Parsed(k.val, SkipSpace(t, c + 1)) ELSE NoParse :
                        c \in {SkipSpace(t, k.next)}}) :
              k \in {ParseChars(t, i + 1, <<>>)}})

\* no member, and json.loads of the member at index i: the member, and the
\* index of what follows it
NoMember == [ok |-> FALSE, member |-> Member(<<>>, JNull), next |-> 0]
ParseMember(t, i) ==
    The({IF ~k.ok THEN NoMember
         ELSE The({IF ~v.ok THEN NoMember
                   ELSE [ok |-> TRUE, member |-> Member(k.val.s, v.val),
                         next |-> SkipSpace(t, v.next)] :
                   v \in {ParseValue(t, k.next)}}) :
         k \in {ParseKey(t, i)}})

NoMembers == [ok |-> FALSE, obj |-> <<>>, next |-> 0]
RECURSIVE ParseMembers(_, _, _)
\* json.loads of the members of an object from index i (behind "{" or ","),
\* acc being the members read so far; ok with the index behind "}"
ParseMembers(t, i, acc) ==
    The({IF ~m.ok THEN NoMembers
         ELSE IF m.next > Len(t) THEN NoMembers
         ELSE IF t[m.next] = 125
           THEN [ok |-> TRUE, obj |-> Append(acc, m.member), next |-> m.next + 1]
         ELSE IF t[m.next] = 44
           THEN ParseMembers(t, SkipSpace(t, m.next + 1), Append(acc, m.member))
         ELSE NoMembers :
         m \in {ParseMember(t, i)}})

\* json.loads of a text that is to be an object: ok and its members, or not
\* ok (json.loads raises, or the value is no object)
JsonLoads(t) ==
    The({IF i > Len(t) THEN [ok |-> FALSE, obj |-> <<>>]
         ELSE IF t[i] # 123 THEN [ok |-> FALSE, obj |-> <<>>]
         ELSE The({IF j <= Len(t) /\ t[j] = 125
                     THEN [ok |-> SkipSpace(t, j + 1) > Len(t), obj |-> <<>>]
                   ELSE The({[ok |-> r.ok /\ SkipSpace(t, r.next) > Len(t),
                              obj |-> IF r.ok THEN r.obj ELSE <<>>] :
                             r \in {ParseMembers(t, j, <<>>)}}) :
                   j \in {SkipSpace(t, i + 1)}}) :
         i \in {SkipSpace(t, 1)}})

\* whether the dict has the key, and message[key] (the last member of that key)
HasKey(obj, key) == \E i \in 1..Len(obj) : obj[i].key = key
Get(obj, key) ==
    obj[CHOOSE i \in 1..Len(obj) :
            obj[i].key = key /\ \A j \in (i + 1)..Len(obj) : obj[j].key # key].val


(* --------------------- the local caller (RFC 1928) -------------------- *)
\* the greeting a SOCKS caller writes: version, number of methods, methods
EncodeGreeting(g) == <<g.ver, Len(g.methods)>> \o g.methods
\* the address field of a request: a domain name is preceded by its length
AddrField(r) == IF r.atyp = 3 THEN <<Len(r.addr)>> \o r.addr ELSE r.addr
\* the request a SOCKS caller writes: version, command, reserved, address
\* type, address, port in network byte order
EncodeRequest(r) ==
    <<r.ver, r.cmd, 0, r.atyp>> \o AddrField(r) \o <<r.port \div 256, r.port % 256>>
\* bytes bs of phase ph (0 greeting, 1 request, 2 payload) as the TCP
\* segments they arrive in: whole (k = 0) or cut after the k-th byte
Segments(ph, bs, k) ==
    IF k = 0 \/ k >= Len(bs) THEN <<[ph |-> ph, bytes |-> bs]>>
    ELSE <<[ph |-> ph, bytes |-> Take(bs, k)], [ph |-> ph, bytes |-> Drop(bs, k)]>>
\* everything a caller sends: greeting, request, then its payload chunks
CallerSegments(sc) ==
    Segments(0, EncodeGreeting(sc.greet), sc.gcut)
        \o Segments(1, EncodeRequest(sc.req), sc.rcut)
        \o [k \in 1..Len(sc.data) |-> [ph |-> 2, bytes |-> sc.data[k]]]

(* -------------------------- SOCKS5 replies ---------------------------- *)
\* client.py:155, 150: method selection replies
ReplyNoAuth == <<5, 0>>
ReplyNoMethods == <<5, 255>>
\* client.py:164, 179, 187: request replies, bound address 0.0.0.0:0
ReplyCmdNotSupported == <<5, 7, 0, 1, 0, 0, 0, 0, 0, 0>>
ReplyAtypNotSupported == <<5, 8, 0, 1, 0, 0, 0, 0, 0, 0>>
ReplySuccess == <<5, 0, 0, 1, 0, 0, 0, 0, 0, 0>>

\* websockets.connect(max_size=10*1024*1024) (client.py:43): the largest message
max_size == 10485760

(* ------------------------------ state --------------------------------- *)
VARIABLES
    intent,              \* per connection: what its caller sends (never changes)
    tls,                 \* how the client was made: the entry point, its flags, the
                         \* verification of its TLS context, whether a warning was logged
    entry,               \* which entry point drives the client: "start" or "run"
    stopped,             \* stop() was called by the signal handler of run()
    tried,               \* rounds the loop of the running connect_to_server has made
    running,             \* TunnelClient.running
    websocket,           \* TunnelClient.websocket: 0 (None) or a session
    wsState,             \* per session: "unused", "open" or "closed"
    server,              \* TunnelClient.server: 0 (None) or a listener
    listening,           \* the SOCKS5 listeners that are open
    nlisteners,          \* listeners created so far
    reconnect_attempts,  \* TunnelClient.reconnect_attempts
    runPc,               \* position of start() / run()
    delay,               \* seconds of the asyncio.sleep in progress before a retry, else 0
    pc,                  \* per local connection: position of handle_client
    wire,                \* per connection: segments the local caller sent, not yet arrived
    rbuf,                \* per connection: bytes buffered in its StreamReader
    eof,                 \* per connection: the local caller closed its side
    need,                \* per connection: n_methods / addr_len just read
    target,              \* per connection: (target_host, target_port)
    cws,                 \* per connection: the websocket passed to traffic_through_tunnel
    out,                 \* per connection: the writes made to its local socket
    got,                 \* per connection: whose request each relayed response answered
    closing,             \* per connection: writer.is_closing() of its local socket
    sent,                \* per session: messages sent, not yet answered by the relay
    inbox,               \* per session: messages received, not yet taken by recv()
    waiter,              \* per session: the connection waiting in recv(), else 0
    kaPc,                \* position of the keepalive task of start(): "none" before it is created
    srvRunning,          \* TunnelServer.running
    srvPc,               \* position of TunnelServer.start() / stop()
    accepting,           \* the relay's HTTP site accepts connections
    clients,             \* TunnelServer.clients: the sessions it holds an adapter for
    connections,         \* ConnectionManager.connections: the sessions it manages
    notified,            \* the sessions whose client was sent SERVER_SHUTDOWN
    stopCalls,           \* the calls of TunnelServer.stop() made so far
    handling,            \* the sessions whose handle_connection call is in progress
    forced,              \* the sessions whose adapter was closed by the relay while
                         \* their handler waited for the next message
    clock,               \* time.time() on the relay, in seconds
    last_activity,       \* per session: conn_info['last_activity']
    monPc,               \* position of monitor_connections: "off", "sleep" or "cleanup"
    monitors,            \* the monitor tasks that are alive
    dead                 \* dead_connections of the monitor's pass, not yet cleaned up

lifeVars == <<tls, stopped, tried, entry, running, websocket, wsState, server, listening, nlisteners,
              reconnect_attempts, runPc, delay, kaPc>>
srvVars == <<srvRunning, srvPc, accepting, notified, stopCalls>>
regVars == <<clients, connections, handling, forced>>
monVars == <<clock, last_activity, monPc, monitors, dead>>
relayVars == <<srvVars, regVars, monVars>>
connVars == <<intent, pc, wire, rbuf, eof, need, target, cws, out, got, closing>>
netVars == <<sent, inbox, waiter>>
vars == <<lifeVars, relayVars, connVars, netVars>>

(* --------------------------- wire messages ---------------------------- *)
\* the keys and the types of the messages, as texts
KeyType == <<116, 121, 112, 101>>
KeyTargetHost == <<116, 97, 114, 103, 101, 116, 95, 104, 111, 115, 116>>
KeyTargetPort == <<116, 97, 114, 103, 101, 116, 95, 112, 111, 114, 116>>
KeyData == <<100, 97, 116, 97>>
TextData == <<100, 97, 116, 97>>
TextError == <<101, 114, 114, 111, 114>>

\* a target host (a text or None) and a target port (an integer or None) as
\* JSON values, and back
HostValue(host) == IF host = NoneHost THEN JNull ELSE JStr(host)
PortValue(port) == IF port = NonePort THEN JNull ELSE JInt(port)
ValueHost(v) == IF v.t = "null" THEN NoneHost ELSE v.s
ValuePort(v) == IF v.t = "null" THEN NonePort ELSE v.n

\* client.py:218-223: the dict of a data message, the payload as data.hex()
DataDict(host, port, data) ==
    <<Member(KeyType, JStr(TextData)), Member(KeyTargetHost, HostValue(host)),
      Member(KeyTargetPort, PortValue(port)), Member(KeyData, JStr(Hex(data)))>>

\* the message websocket.send is given (client.py:224): the text json.dumps
\* writes.  "src" and "raw" are not on the wire: they remember which local
\* connection's request a message belongs to and the bytes that connection
\* read.
DataMessage(host, port, data, c) ==
    The({[text |-> JsonDumps(DataDict(host, port, d)), src |-> c, raw |-> d] :
         d \in {data}})

\* server.py:300: a text the relay sends that is no JSON, 'SERVER_SHUTDOWN';
\* it answers no request of a local connection
ShutdownMessage ==
    [text |-> <<83, 69, 82, 86, 69, 82, 95, 83, 72, 85, 84, 68, 79, 87, 78>>,
     src |-> 0, raw |-> <<>>]

\* what the peer answers to message m: the message itself
\* (connection_manager.py:82), an error object (client.py:236) or a text
\* that is no JSON
Response(m, kind) ==
    IF kind = "echo" THEN m
    ELSE IF kind = "error"
    THEN [text |-> JsonDumps(<<Member(KeyType, JStr(TextError))>>),
          src |-> m.src, raw |-> <<>>]
    ELSE ShutdownMessage
RespKinds == {"echo", "error", "undecodable"}

\* json.loads and bytes.fromhex of a received data message (client.py:228-232)
DecodeMessage(m) ==
    The({[type |-> Get(obj, KeyType).s,
          target_host |-> ValueHost(Get(obj, KeyTargetHost)),
          target_port |-> ValuePort(Get(obj, KeyTargetPort)),
          data |-> FromHex(Get(obj, KeyData).s)] :
         obj \in {JsonLoads(m.text).obj}})

(* ---------------------- the local socket (asyncio) -------------------- *)
\* reader.read(n) returns at once when n = 0, when bytes are buffered or at EOF
CanRead(c, n) == n = 0 \/ rbuf[c] # <<>> \/ eof[c]
\* the StreamReader buffers after reader.read(n) on connection c
AfterRead(c, n) == [rbuf EXCEPT ![c] = Drop(rbuf[c], n)]
\* the local socket's writes after writer.write(bs) on connection c
AfterWrite(c, bs) == [out EXCEPT ![c] = Append(out[c], bs)]

\* what reader.read(n) returns: the buffered bytes, at most n of them
ReadData(c, n) == Take(rbuf[c], n)

\* the writers once connection c has taken a step that leaves its local
\* socket open whichever way handle_client ends
WriterLeftOpen(c) == closing
\* client.py:81, 89, 105, 113, 119, 127, 252: every path that ends
\* handle_client calls writer.close(), at the latest in its finally clause
WriterAfter(c) == [closing EXCEPT ![c] = closing[c] \/ pc'[c] = "closed"]

\* the positions after a failure of connection c that ended every handler,
\* as error handling that tore the whole client down would have them
ClosedEvery(c) == [d \in Conns |-> "closed"]
\* writer.close() on every path that ends handle_client; a connection that
\* was waiting in recv() is cancelled with it
Closed(c) == [pc EXCEPT ![c] = "closed"]
Unwait(c) == [s \in Sessions |-> IF waiter[s] = c THEN 0 ELSE waiter[s]]

(* ------------------------- environment: caller ------------------------ *)
\* the event loop accepts a local connection while a listener is open
Accept(c) ==
    /\ pc[c] = "idle"
    /\ listening # {}
    /\ pc' = [pc EXCEPT ![c] = "hs_hdr"]
    /\ UNCHANGED <<relayVars, intent, closing, lifeVars, netVars, wire, rbuf, eof, need, target,
                   cws, out, got>>

\* a caller writes its request once no-auth was selected and its payload
\* once the request succeeded
CallerMaySend(c) ==
    /\ wire[c] # <<>>
    /\ \/ Head(wire[c]).ph = 0
       \/ Head(wire[c]).ph = 1 /\ Len(out[c]) >= 1 /\ out[c][1] = ReplyNoAuth
       \/ Head(wire[c]).ph = 2 /\ Len(out[c]) >= 2 /\ out[c][2] = ReplySuccess
\* a caller that was answered with a failure reply writes nothing more
CallerRefused(c) ==
    \/ Len(out[c]) >= 1 /\ out[c][1] # ReplyNoAuth
    \/ Len(out[c]) >= 2 /\ out[c][2] # ReplySuccess

\* the positions where handle_client awaits reader.read.  What the caller
\* does is seen by the handler only there, so the caller's steps are taken
\* there: an earlier arrival leads to the same read.
ReadPositions ==
    {"hs_hdr", "hs_methods", "rq_hdr", "rq_addr4", "rq_addr16", "rq_dlen",
     "rq_dname", "rq_port", "relay_read"}

\* the next segment of the caller's bytes arrives
Deliver(c) ==
    /\ pc[c] \in ReadPositions
    /\ CallerMaySend(c)
    /\ rbuf' = [rbuf EXCEPT ![c] = rbuf[c] \o Head(wire[c]).bytes]
    /\ wire' = [wire EXCEPT ![c] = Tail(wire[c])]
    /\ UNCHANGED <<relayVars, intent, closing, lifeVars, netVars, pc, eof, need, target, cws, out, got>>

\* the caller closes its side after its last byte, or when it was refused
LocalEOF(c) ==
    /\ pc[c] \in ReadPositions
    /\ rbuf[c] = <<>>
    /\ wire[c] = <<>> \/ CallerRefused(c)
    /\ ~eof[c]
    /\ eof' = [eof EXCEPT ![c] = TRUE]
    /\ UNCHANGED <<relayVars, intent, closing, lifeVars, netVars, pc, wire, rbuf, need, target,
                   cws, out, got>>

(* -------------------------- _socks5_handshake ------------------------- *)
\* client.py:135-141: data = read(2); ver, n_methods = data
HsHeader(c) ==
    /\ pc[c] = "hs_hdr"
    /\ CanRead(c, 2)
    /\ LET data == ReadData(c, 2) IN
        /\ rbuf' = AfterRead(c, 2)
        /\ IF Len(data) < 2 \/ data[1] # 5
             THEN pc' = Closed(c) /\ need' = need
             ELSE /\ pc' = [pc EXCEPT ![c] = "hs_methods"]
                  /\ need' = [need EXCEPT ![c] = data[2]]
    /\ closing' = WriterAfter(c)
    /\ UNCHANGED <<relayVars, intent, lifeVars, netVars, wire, eof, target, cws, out, got>>

\* the reply to a method list (client.py:149-156)
MethodReply(methods) == IF 0 \in {methods[i] : i \in 1..Len(methods)}
                        THEN ReplyNoAuth ELSE ReplyNoMethods

\* client.py:144-156: methods = read(n_methods); select no-auth or refuse
HsMethods(c) ==
    /\ pc[c] = "hs_methods"
    /\ CanRead(c, need[c])
    /\ LET methods == ReadData(c, need[c]) IN
        /\ rbuf' = AfterRead(c, need[c])
        /\ IF Len(methods) # need[c]
             THEN pc' = Closed(c) /\ out' = out
             ELSE /\ out' = AfterWrite(c, MethodReply(methods))
                  /\ pc' = IF MethodReply(methods) = ReplyNoAuth
                           THEN [pc EXCEPT ![c] = "rq_hdr"] ELSE Closed(c)
    /\ closing' = WriterAfter(c)
    /\ UNCHANGED <<relayVars, intent, lifeVars, netVars, wire, eof, need, target, cws, got>>

(* ---------------- handle_client after _get_target_address ------------- *)
\* client.py:78-99: with the target returned, close when self.websocket is
\* None or closed, else enter traffic_through_tunnel with self.websocket
EnterTunnel(c, host, port) ==
    /\ target' = [target EXCEPT ![c] = [host |-> host, port |-> port]]
    /\ IF websocket = 0 \/ wsState[websocket] # "open"
         THEN pc' = Closed(c) /\ cws' = cws
         ELSE /\ pc' = [pc EXCEPT ![c] = "relay_read"]
              /\ cws' = [cws EXCEPT ![c] = websocket]

(* -------------------------- _get_target_address ----------------------- *)
\* where the request header sends the parser: the reply written at once, or
\* the address field to read next (client.py:163-181)
RequestBranch(hdr) ==
    IF hdr[1] # 5 \/ hdr[2] # 1 THEN "cmd_not_supported"
    ELSE IF hdr[4] = 1 THEN "rq_addr4"
    ELSE IF hdr[4] = 3 THEN "rq_dlen"
    ELSE IF hdr[4] = 4 THEN "rq_addr16"
    ELSE "atyp_not_supported"

\* client.py:161-181: version, cmd, _, addr_type = read(4)
RqHeader(c) ==
    /\ pc[c] = "rq_hdr"
    /\ CanRead(c, 4)
    /\ LET hdr == ReadData(c, 4)
           br == RequestBranch(hdr) IN
        /\ rbuf' = AfterRead(c, 4)
        /\ IF Len(hdr) # 4
             THEN pc' = Closed(c) /\ UNCHANGED <<out, target, cws>>
             ELSE IF br = "cmd_not_supported"
             THEN /\ out' = AfterWrite(c, ReplyCmdNotSupported)
                  /\ EnterTunnel(c, NoneHost, NonePort)
             ELSE IF br = "atyp_not_supported"
             THEN /\ out' = AfterWrite(c, ReplyAtypNotSupported)
                  /\ EnterTunnel(c, NoneHost, NonePort)
             ELSE /\ pc' = [pc EXCEPT ![c] = br]
                  /\ UNCHANGED <<out, target, cws>>
    /\ closing' = WriterAfter(c)
    /\ UNCHANGED <<relayVars, intent, lifeVars, netVars, wire, eof, need, got>>

\* client.py:170-171: addr = read(4); inet_ntop raises unless it has 4 bytes
RqAddr4(c) ==
    /\ pc[c] = "rq_addr4"
    /\ CanRead(c, 4)
    /\ LET addr == ReadData(c, 4) IN
        /\ rbuf' = AfterRead(c, 4)
        /\ IF Len(addr) # 4
             THEN pc' = Closed(c) /\ target' = target
             ELSE /\ pc' = [pc EXCEPT ![c] = "rq_port"]
                  /\ target' = [target EXCEPT ![c].host = InetNtop4(addr)]
    /\ closing' = WriterAfter(c)
    /\ UNCHANGED <<relayVars, intent, lifeVars, netVars, wire, eof, need, cws, out, got>>

\* client.py:176-177: addr = read(16); inet_ntop raises unless it has 16 bytes
RqAddr16(c) ==
    /\ pc[c] = "rq_addr16"
    /\ CanRead(c, 16)
    /\ LET addr == ReadData(c, 16) IN
        /\ rbuf' = AfterRead(c, 16)
        /\ IF Len(addr) # 16
             THEN pc' = Closed(c) /\ target' = target
             ELSE /\ pc' = [pc EXCEPT ![c] = "rq_port"]
                  /\ target' = [target EXCEPT ![c].host = InetNtop6(addr)]
    /\ closing' = WriterAfter(c)
    /\ UNCHANGED <<relayVars, intent, lifeVars, netVars, wire, eof, need, cws, out, got>>

\* client.py:173: addr_len = int.from_bytes(read(1), 'big')
RqDomainLen(c) ==
    /\ pc[c] = "rq_dlen"
    /\ CanRead(c, 1)
    /\ rbuf' = AfterRead(c, 1)
    /\ need' = [need EXCEPT ![c] = FromBytesBig(ReadData(c, 1))]
    /\ pc' = [pc EXCEPT ![c] = "rq_dname"]
    /\ UNCHANGED <<relayVars, intent, closing, lifeVars, netVars, wire, eof, target, cws, out, got>>

\* client.py:174: target_host = read(addr_len).decode('ascii')
RqDomainName(c) ==
    /\ pc[c] = "rq_dname"
    /\ CanRead(c, need[c])
    /\ LET name == ReadData(c, need[c]) IN
        /\ rbuf' = AfterRead(c, need[c])
        /\ IF ~AsciiOk(name)
             THEN pc' = Closed(c) /\ target' = target
             ELSE /\ pc' = [pc EXCEPT ![c] = "rq_port"]
                  /\ target' = [target EXCEPT ![c].host = AsciiDecode(name)]
    /\ closing' = WriterAfter(c)
    /\ UNCHANGED <<relayVars, intent, lifeVars, netVars, wire, eof, need, cws, out, got>>

\* client.py:184-190 and 78-99: target_port = int.from_bytes(read(2), 'big');
\* the success reply is written; handle_client then looks at self.websocket
RqPort(c) ==
    /\ pc[c] = "rq_port"
    /\ CanRead(c, 2)
    /\ rbuf' = AfterRead(c, 2)
    /\ out' = AfterWrite(c, ReplySuccess)
    /\ EnterTunnel(c, target[c].host, FromBytesBig(ReadData(c, 2)))
    /\ closing' = WriterAfter(c)
    /\ UNCHANGED <<relayVars, intent, lifeVars, netVars, wire, eof, need, got>>

(* ----------------------- traffic_through_tunnel ----------------------- *)
\* a read of everything that is buffered, however much
WholeRead(c) == ReadData(c, Len(rbuf[c]))
\* client.py:210: data = await reader.read(4096)
ChunkRead(c) == ReadData(c, ReadChunk)

\* client.py:208-223: data = read(4096); at EOF leave the loop, else send the
\* data message on the websocket this handler was given.  websocket.send
\* raises ConnectionClosed on a closed connection (caught at line 247).  It
\* is awaited: it returns at once, or the handler is suspended in it until
\* the transport has taken the frame.
RelayRead(c) ==
    /\ pc[c] = "relay_read"
    /\ CanRead(c, ReadChunk)
    /\ LET data == ChunkRead(c)
           s == cws[c] IN
        /\ rbuf' = AfterRead(c, ReadChunk)
        /\ IF data = <<>> \/ wsState[s] # "open"
             THEN pc' = Closed(c) /\ sent' = sent
             ELSE /\ sent' = [sent EXCEPT ![s] =
                        Append(sent[s], DataMessage(target[c].host, target[c].port, data, c))]
                  /\ \E suspended \in BOOLEAN :
                        pc' = [pc EXCEPT ![c] = IF suspended THEN "relay_send"
                                                ELSE "relay_recv"]
    /\ closing' = WriterAfter(c)
    /\ UNCHANGED <<relayVars, intent, lifeVars, inbox, waiter, wire, eof, need, target,
                   cws, out, got>>

\* client.py:218-223: the suspended websocket.send returns, or raises
\* ConnectionClosed when the connection was closed meanwhile
RelaySent(c) ==
    /\ pc[c] = "relay_send"
    /\ pc' = IF wsState[cws[c]] = "open" THEN [pc EXCEPT ![c] = "relay_recv"]
             ELSE Closed(c)
    /\ closing' = WriterAfter(c)
    /\ UNCHANGED <<relayVars, intent, lifeVars, netVars, wire, rbuf, eof, need, target,
                   cws, out, got>>

\* client.py:228-238: what the handler does with a received message: "write"
\* its bytes to the local socket, "break" out of the loop, "raise" (the
\* message is no JSON object or its data no hex string) or "skip" it
Disposition(m) ==
    The({IF ~r.ok THEN "raise"
         ELSE IF ~HasKey(r.obj, KeyType) THEN "skip"
         ELSE IF Get(r.obj, KeyType) = JStr(TextData)
           THEN (IF /\ HasKey(r.obj, KeyData)
                    /\ Get(r.obj, KeyData).t = "str"
                    /\ FromHexOk(Get(r.obj, KeyData).s)
                   THEN "write" ELSE "raise")
         ELSE IF Get(r.obj, KeyType) = JStr(TextError) THEN "break"
         ELSE "skip" :
         r \in {JsonLoads(m.text)}})

\* the handler's next position after a received message
AfterMessage(c, m) ==
    IF Disposition(m) = "write" THEN [pc EXCEPT ![c] = "relay_drain"]
    ELSE IF Disposition(m) = "skip" THEN [pc EXCEPT ![c] = "relay_read"]
    ELSE Closed(c)

\* the handler takes the next message of its websocket (client.py:227-235)
TakeMessage(c) ==
    LET s == cws[c]
        m == Head(inbox[s]) IN
    /\ inbox' = [inbox EXCEPT ![s] = Tail(inbox[s])]
    /\ pc' = AfterMessage(c, m)
    /\ IF Disposition(m) = "write"
         THEN /\ out' = AfterWrite(c, DecodeMessage(m).data)
              /\ got' = [got EXCEPT ![c] = Append(got[c], m.src)]
         ELSE UNCHANGED <<out, got>>

\* client.py:227: response = await wait_for(websocket.recv(), 30).  recv()
\* raises RuntimeError when another coroutine is already waiting in recv()
\* on the same connection, returns a queued message if there is one, raises
\* ConnectionClosed on a closed connection, and waits otherwise.
RelayRecv(c) ==
    /\ pc[c] = "relay_recv"
    /\ LET s == cws[c] IN
        IF waiter[s] # 0
          THEN pc' = Closed(c) /\ UNCHANGED <<inbox, out, got, waiter>>
        ELSE IF inbox[s] # <<>>
          THEN TakeMessage(c) /\ waiter' = waiter
        ELSE IF wsState[s] # "open"
          THEN pc' = Closed(c) /\ UNCHANGED <<inbox, out, got, waiter>>
        ELSE /\ pc' = [pc EXCEPT ![c] = "relay_wait"]
             /\ waiter' = [waiter EXCEPT ![s] = c]
             /\ UNCHANGED <<inbox, out, got>>
    /\ closing' = WriterAfter(c)
    /\ UNCHANGED <<relayVars, intent, lifeVars, sent, wire, rbuf, eof, need, target, cws>>

\* the waiting recv() returns a message, or raises ConnectionClosed
RelayWake(c) ==
    /\ pc[c] = "relay_wait"
    /\ LET s == cws[c] IN
        /\ inbox[s] # <<>> \/ wsState[s] # "open"
        /\ IF inbox[s] # <<>>
             THEN TakeMessage(c)
             ELSE pc' = Closed(c) /\ UNCHANGED <<inbox, out, got>>
    /\ waiter' = Unwait(c)
    /\ closing' = WriterAfter(c)
    /\ UNCHANGED <<relayVars, intent, lifeVars, sent, wire, rbuf, eof, need, target, cws>>

\* client.py:240-242: no message within 30 s: asyncio.TimeoutError, break
RelayTimeout(c) ==
    /\ pc[c] = "relay_wait"
    /\ inbox[cws[c]] = <<>>
    /\ pc' = Closed(c)
    /\ waiter' = Unwait(c)
    /\ closing' = WriterAfter(c)
    /\ UNCHANGED <<relayVars, intent, lifeVars, sent, inbox, wire, rbuf, eof, need, target, cws,
                   out, got>>

\* client.py:235: await writer.drain() returns when the caller has consumed
RelayDrain(c) ==
    /\ pc[c] = "relay_drain"
    /\ pc' = [pc EXCEPT ![c] = "relay_read"]
    /\ UNCHANGED <<relayVars, intent, closing, lifeVars, netVars, wire, rbuf, eof, need, target,
                   cws, out, got>>

\* client.py:116-120, 249-253: the handler's task is cancelled where it
\* awaits.  asyncio.run cancels the tasks that are left when run() or start()
\* has returned (client.py:378); CancelledError closes the writer in the
\* finally of traffic_through_tunnel or in the except clause of
\* handle_client.
Cancel(c) ==
    /\ runPc = "done"
    /\ pc[c] \notin {"idle", "closed"}
    /\ pc' = Closed(c)
    /\ waiter' = Unwait(c)
    /\ closing' = WriterAfter(c)
    /\ UNCHANGED <<relayVars, intent, lifeVars, sent, inbox, wire, rbuf, eof, need, target,
                   cws, out, got>>

(* ------------------------ environment: transport ---------------------- *)
\* the relay answers the oldest unanswered message of a session
RelayRespond(s) ==
    /\ wsState[s] = "open"
    /\ sent[s] # <<>>
    /\ \E kind \in RespKinds :
        inbox' = [inbox EXCEPT ![s] = Append(inbox[s], Response(Head(sent[s]), kind))]
    /\ sent' = [sent EXCEPT ![s] = Tail(sent[s])]
    /\ UNCHANGED <<lifeVars, relayVars, connVars, waiter>>

\* the transport connection of a session fails; what was sent and not yet
\* answered is lost
TransportFail(s) ==
    /\ wsState[s] = "open"
    /\ wsState' = [wsState EXCEPT ![s] = "closed"]
    /\ sent' = [sent EXCEPT ![s] = <<>>]
    /\ UNCHANGED <<tls, stopped, tried, entry, kaPc, running, websocket, server, listening, nlisteners,
                   reconnect_attempts, runPc, delay, relayVars, connVars, inbox, waiter>>

(* ------------------------- the relay: TunnelServer --------------------- *)
\* the session a websocket connection made next would be
NextSession == Cardinality({s \in Sessions : wsState[s] # "unused"}) + 1

\* the websocket connections of the sessions in S are closed by the relay;
\* what their clients had sent and the relay had not yet read is lost
SrvClosed(S) == [s \in Sessions |-> IF s \in S /\ wsState[s] = "open" THEN "closed"
                                    ELSE wsState[s]]
SrvUnread(S) == [s \in Sessions |-> IF s \in S THEN <<>> ELSE sent[s]]

\* connection_manager.py:92-93: the registry after the sessions in S were
\* left in it by a cleanup that pops nothing
PoppedNone(S) == connections
\* connection_manager.py:92-93: self.connections.pop(websocket) for the
\* sessions in S
Popped(S) == connections \ S

\* server.py:131-137: adapter.close() for the sessions in S.  The receive
\* task of an adapter that was open is cancelled and puts nothing into the
\* message queue (CancelledError is no Exception, server.py:105-112): a
\* handler that waits in recv() for the next message (server.py:124) is not
\* woken.  A handler with a message still to process finds the adapter
\* closed at its next recv() (server.py:119-120).
ForcedBy(S) ==
    forced \cup {s \in S \cap handling : wsState[s] = "open" /\ sent[s] = <<>>}

\* server.py:68-156 and connection_manager.py:44-57: a client connects to
\* /ws while the site accepts; its adapter is added to self.clients and to
\* the connections of the connection manager
SrvAccept ==
    /\ accepting
    /\ NextSession <= MaxSessions
    /\ wsState' = [wsState EXCEPT ![NextSession] = "open"]
    /\ clients' = clients \cup {NextSession}
    /\ connections' = connections \cup {NextSession}
    /\ handling' = handling \cup {NextSession}
    /\ last_activity' = [last_activity EXCEPT ![NextSession] = clock]
    /\ UNCHANGED <<tls, stopped, tried, entry, kaPc, running, websocket, server, listening, nlisteners,
                   reconnect_attempts, runPc, delay, srvVars, forced, clock, monPc, monitors, dead,
                   connVars, netVars>>

\* connection_manager.py:63-68, 77-82: the next message of a managed
\* connection is noted as its last activity and sent back on it as it came
SrvProcess(s) ==
    /\ s \in connections
    /\ wsState[s] = "open"
    /\ sent[s] # <<>>
    /\ last_activity' = [last_activity EXCEPT ![s] = clock]
    /\ inbox' = [inbox EXCEPT ![s] = Append(inbox[s], Head(sent[s]))]
    /\ sent' = [sent EXCEPT ![s] = Tail(sent[s])]
    /\ UNCHANGED <<lifeVars, srvVars, regVars, clock, monPc, monitors, dead, connVars, waiter>>

\* connection_manager.py:70-75, 90-99 and server.py:159-163: the handler of
\* a connection ended by its client or by the network, or closed by the relay
\* while the handler did not wait, leaves its loop; the connection is popped
\* and the adapter removed from self.clients
SrvCleanup(s) ==
    /\ s \in handling
    /\ wsState[s] = "closed"
    /\ s \notin forced
    /\ handling' = handling \ {s}
    /\ clients' = clients \ {s}
    /\ connections' = Popped({s})
    /\ UNCHANGED <<lifeVars, srvVars, forced, monVars, connVars, netVars>>

(* ------------------------- monitor_connections ------------------------- *)
\* connection_manager.py:21: ping_interval
ping_interval == 30
\* connection_manager.py:117: the time without activity the monitor allows
GracePeriod == ping_interval * 3
\* ticks of ping_interval the relay's clock is followed for
MaxTicks == 4

\* time passes on the relay
Tick ==
    /\ clock < MaxTicks * ping_interval
    /\ clock' = clock + ping_interval
    /\ UNCHANGED <<lifeVars, srvVars, regVars, last_activity, monPc, monitors, dead, connVars,
                   netVars>>

RECURSIVE InOrder(_)
\* the sessions of S in the order they were registered: list(dict.items())
InOrder(S) ==
    IF S = {} THEN <<>>
    ELSE The({<<m>> \o InOrder(S \ {m}) : m \in {s \in S : \A r \in S : s <= r}})

\* connection_manager.py:111-120: the connections a pass finds dead; every
\* connection is active (connection_manager.py:56)
DeadConnections ==
    InOrder({s \in connections : clock - last_activity[s] > GracePeriod})

\* connection_manager.py:90-99 called by the monitor for session s: the
\* connection is popped and its adapter closed
MonitorCleanup(s) ==
    /\ connections' = Popped({s})
    /\ forced' = ForcedBy({s})
    /\ wsState' = SrvClosed({s})
    /\ sent' = SrvUnread({s})

\* connection_manager.py:105-136: a pass of the monitor after its sleep: the
\* dead connections are listed, and the first is cleaned up; the pass is
\* suspended in the close of its adapter
MonPass ==
    /\ monPc = "sleep"
    /\ DeadConnections # <<>>
    /\ MonitorCleanup(Head(DeadConnections))
    /\ dead' = Tail(DeadConnections)
    /\ monPc' = IF Tail(DeadConnections) = <<>> THEN "sleep" ELSE "cleanup"
    /\ UNCHANGED <<tls, stopped, tried, entry, kaPc, running, websocket, server, listening, nlisteners,
                   reconnect_attempts, runPc, delay, srvVars, clients, handling, clock,
                   last_activity, monitors, connVars, inbox, waiter>>

\* connection_manager.py:132-133: the next dead connection of the pass is
\* cleaned up
MonCleanup ==
    /\ monPc = "cleanup"
    /\ MonitorCleanup(Head(dead))
    /\ dead' = Tail(dead)
    /\ monPc' = IF Tail(dead) = <<>> THEN "sleep" ELSE "cleanup"
    /\ UNCHANGED <<tls, stopped, tried, entry, kaPc, running, websocket, server, listening, nlisteners,
                   reconnect_attempts, runPc, delay, srvVars, clients, handling, clock,
                   last_activity, monitors, connVars, inbox, waiter>>

(* ------------------- start_monitoring, stop_monitoring ------------------ *)
\* monitor tasks that are followed
MaxMonitors == 2

\* a start_monitoring without its test, which makes a task at every call
NeedsMonitorAlways == TRUE
\* connection_manager.py:144: if not self._monitor_task or
\* self._monitor_task.done()
NeedsMonitor == monPc = "off"

\* connection_manager.py:150-155: the task self._monitor_task names is
\* cancelled, if it is alive, and awaited
Cancelled == IF monPc # "off" THEN monitors - 1 ELSE monitors

\* connection_manager.py:142-145: start_monitoring()
StartMonitoring ==
    /\ monitors < MaxMonitors
    /\ IF NeedsMonitor
         THEN /\ monPc' = "sleep"
              /\ monitors' = monitors + 1
              /\ dead' = <<>>
         ELSE UNCHANGED <<monPc, monitors, dead>>
    /\ UNCHANGED <<lifeVars, srvVars, regVars, clock, last_activity, connVars, netVars>>

\* connection_manager.py:147-155: stop_monitoring()
StopMonitoring ==
    /\ monPc' = "off"
    /\ monitors' = Cancelled
    /\ dead' = <<>>
    /\ UNCHANGED <<lifeVars, srvVars, regVars, clock, last_activity, connVars, netVars>>

\* connection_manager.py:157-166: close_all(): stop_monitoring(), then every
\* managed connection is popped and closed
CloseAll ==
    /\ monPc' = "off"
    /\ monitors' = Cancelled
    /\ dead' = <<>>
    /\ wsState' = SrvClosed(connections)
    /\ sent' = SrvUnread(connections)
    /\ forced' = ForcedBy(connections)
    /\ connections' = Popped(connections)
    /\ UNCHANGED <<tls, stopped, tried, entry, kaPc, running, websocket, server, listening, nlisteners,
                   reconnect_attempts, runPc, delay, srvVars, clients, handling, clock,
                   last_activity, connVars, inbox, waiter>>

(* ------------------------- TunnelServer.stop() ------------------------- *)
\* calls of stop() that are followed
MaxStopCalls == 2

\* a stop() without its first test, which goes through the shutdown each time
StopIgnoredNever == FALSE
\* server.py:283-284: if not self.running: return
StopIgnored == ~srvRunning

\* server.py:281-293: stop() is called on a running relay by the signal
\* handler (server.py:237-242), by the finally of start() (server.py:278-279)
\* or by the finally of main(): self.running = False, then
\* http_runner.cleanup() is awaited, which stops the site first
SrvStopBegin ==
    /\ srvPc # "init"
    /\ ~StopIgnored
    /\ stopCalls < MaxStopCalls
    /\ stopCalls' = stopCalls + 1
    /\ srvRunning' = FALSE
    /\ accepting' = FALSE
    /\ srvPc' = "stop_cleanup"
    /\ UNCHANGED <<lifeVars, notified, regVars, monVars, connVars, netVars>>

\* server.py:281-284: stop() is called while the relay is not running, by
\* any of its callers, and returns at once
SrvStopAgain ==
    /\ StopIgnored
    /\ stopCalls < MaxStopCalls
    /\ stopCalls' = stopCalls + 1
    /\ UNCHANGED <<lifeVars, srvRunning, srvPc, accepting, notified, regVars, monVars,
                   connVars, netVars>>

\* server.py:289-327: http_runner.cleanup() returns or raises.  After the
\* site it shuts down the server's connections: it waits for their handlers
\* and cancels those still running, so the websocket connections of a set K
\* of clients have ended by then (their handlers' finally blocks, server.py:
\* 159-163 and connection_manager.py:74-75, have run).  Which K depends on
\* the library and on the clients: any is allowed for.  If it raises, the
\* except clause logs and stop() goes to its finally: self.clients is
\* cleared and stop_monitoring() cancels the monitor task; the notification
\* and close_all() are passed over.
SrvStopCleanup ==
    /\ srvPc = "stop_cleanup"
    /\ \E K \in SUBSET clients, raised \in BOOLEAN :
        /\ wsState' = SrvClosed(K)
        /\ sent' = SrvUnread(K)
        /\ connections' = Popped(K)
        /\ handling' = handling \ K
        /\ forced' = forced \ K
        /\ IF raised
             THEN /\ srvPc' = "done"
                  /\ clients' = {}
                  /\ monPc' = "off"
                  /\ monitors' = Cancelled
                  /\ dead' = <<>>
             ELSE /\ srvPc' = "stop_notify"
                  /\ clients' = clients \ K
                  /\ UNCHANGED <<monPc, monitors, dead>>
    /\ UNCHANGED <<tls, stopped, tried, entry, kaPc, running, websocket, server, listening, nlisteners,
                   reconnect_attempts, runPc, delay, srvRunning, accepting, notified, stopCalls,
                   clock, last_activity, connVars, inbox, waiter>>

\* server.py:295-306: every client of self.clients whose connection is open
\* is sent 'SERVER_SHUTDOWN'; then stop() sleeps 1 s, if it had any client
SrvStopNotify ==
    /\ srvPc = "stop_notify"
    /\ inbox' = [s \in Sessions |->
                   IF s \in clients /\ wsState[s] = "open"
                   THEN Append(inbox[s], ShutdownMessage) ELSE inbox[s]]
    /\ notified' = notified \cup {s \in clients : wsState[s] = "open"}
    /\ srvPc' = IF clients # {} THEN "stop_grace" ELSE "stop_close"
    /\ UNCHANGED <<lifeVars, srvRunning, accepting, stopCalls, regVars, monVars, connVars,
                   sent, waiter>>

\* server.py:306: the sleep of 1 s ends
SrvStopGrace ==
    /\ srvPc = "stop_grace"
    /\ srvPc' = "stop_close"
    /\ UNCHANGED <<lifeVars, srvRunning, accepting, notified, stopCalls, regVars, monVars,
                   connVars, netVars>>

\* server.py:308-327 and connection_manager.py:147-166: close_all() stops
\* the monitor, closes every managed connection and clears the connections;
\* self.server is None; self.clients is cleared
SrvStopCloseAll ==
    /\ srvPc = "stop_close"
    /\ monPc' = "off"
    /\ monitors' = Cancelled
    /\ dead' = <<>>
    /\ wsState' = SrvClosed(connections)
    /\ sent' = SrvUnread(connections)
    /\ forced' = ForcedBy(connections)
    /\ connections' = Popped(connections)
    /\ clients' = {}
    /\ srvPc' = "done"
    /\ UNCHANGED <<tls, stopped, tried, entry, kaPc, running, websocket, server, listening, nlisteners,
                   reconnect_attempts, runPc, delay, srvRunning, accepting, notified, stopCalls,
                   handling, clock, last_activity, connVars, inbox, waiter>>

(* ------------------------------- stop() -------------------------------- *)
\* client.py:314-316: self.server, if set, stops listening; connections it
\* accepted go on
StopListening == IF server # 0 THEN listening \ {server} ELSE listening
\* client.py:317-318: self.websocket, if set, is closed
StopWebsocket == IF websocket # 0 THEN [wsState EXCEPT ![websocket] = "closed"]
                 ELSE wsState

(* -------------------------- connect_to_server -------------------------- *)
\* connect_to_server returns False with the counter at att.  run() logs and
\* sleeps 5 s before its loop goes round (client.py:405-408); start() calls
\* stop() and returns (client.py:274-277).
ReturnFalse(att) ==
    /\ reconnect_attempts' = att
    /\ IF entry = "run"
         THEN /\ runPc' = "retry_sleep"
              /\ delay' = RetrySleep
              /\ UNCHANGED <<running, wsState, listening>>
         ELSE /\ runPc' = "done"
              /\ delay' = 0
              /\ running' = FALSE
              /\ listening' = StopListening
              /\ wsState' = StopWebsocket
    /\ tried' = 0
    /\ UNCHANGED <<tls, stopped, entry, kaPc, websocket, server, nlisteners>>

\* whether the loop of connect_to_server gives up after a retryable failure
\* that brought the counter to att (client.py:56)
GivesUp(att) == att >= max_reconnect_attempts

\* the counter after a successful attempt that found it at att, as a slip
\* that leaves out the reset would have it
AttemptsKept(att) == att
\* client.py:46: self.reconnect_attempts = 0 on success
AttemptsOnSuccess(att) == 0

\* a loop of connect_to_server that goes round once more with the counter
\* at its maximum
MayAttemptLate(att) == att <= max_reconnect_attempts
\* client.py:34: while self.reconnect_attempts < self.max_reconnect_attempts
MayAttempt(att) == att < max_reconnect_attempts

\* the counter after a non-retryable failure that found it at att, as a
\* handler that counted the failure as an attempt would have it
AttemptsFatalCounted(att) == att + 1
\* client.py:48-53, 61-63: InvalidURI, InvalidHandshake and any other
\* exception break out of the loop and leave the counter alone
AttemptsOnFatal(att) == att

\* client.py:35-63: one round of the loop of connect_to_server.  The
\* environment decides the attempt: "ok", "refused" (ConnectionClosed,
\* ConnectionRefusedError: retried) or "fatal" (InvalidURI, InvalidHandshake,
\* any other exception: not retried).
Attempt(outcome) ==
    IF outcome = "ok"
      THEN /\ NextSession <= MaxSessions
           /\ websocket' = NextSession
           /\ wsState' = [wsState EXCEPT ![NextSession] = "open"]
           /\ reconnect_attempts' = AttemptsOnSuccess(reconnect_attempts)
           /\ tried' = 0
           /\ runPc' = IF entry = "run" THEN "start_server" ELSE "serve_forever"
           /\ kaPc' = IF entry = "start" THEN "loop" ELSE kaPc
           /\ UNCHANGED <<tls, stopped, entry, running, server, listening, nlisteners, delay>>
    ELSE IF outcome = "refused"
      THEN IF GivesUp(reconnect_attempts + 1)
             THEN ReturnFalse(reconnect_attempts + 1)
             ELSE /\ reconnect_attempts' = reconnect_attempts + 1
                  /\ tried' = tried + 1
                  /\ runPc' = "cts_sleep"
                  /\ delay' = reconnect_delay
                  /\ UNCHANGED <<tls, stopped, entry, kaPc, running, websocket, wsState, server,
                                 listening, nlisteners>>
    ELSE ReturnFalse(AttemptsOnFatal(reconnect_attempts))

\* client.py:34, 65: the head of the loop of connect_to_server, then one
\* attempt or return False
ConnectAttempt ==
    /\ runPc = "cts"
    /\ IF ~MayAttempt(reconnect_attempts)
         THEN ReturnFalse(reconnect_attempts)
         ELSE \E outcome \in {"ok", "refused", "fatal"} : Attempt(outcome)
    /\ UNCHANGED <<relayVars, connVars, netVars>>

\* an asyncio.sleep before the next attempt ends (client.py:60, 407, 430, 449)
Wake ==
    /\ runPc \in {"cts_sleep", "retry_sleep", "err_sleep", "rc_sleep"}
    /\ runPc' = IF runPc = "cts_sleep" THEN "cts" ELSE "loop"
    /\ delay' = 0
    /\ UNCHANGED <<tls, stopped, tried, entry, kaPc, running, websocket, wsState, server, listening, nlisteners,
                   reconnect_attempts, relayVars, connVars, netVars>>

(* ------------------------------ keepalive() --------------------------- *)
\* client.py:299-309: the keepalive task runs to its next await.  At the head
\* of its loop it leaves unless self.running and self.websocket is open, else
\* it sleeps 25 s; after the sleep it pings if the websocket is still open; a
\* ping that raises is handled by self.reconnect(), a method TunnelClient
\* does not have, so the task ends with AttributeError.
Keepalive ==
    /\ kaPc \in {"loop", "sleep", "ping"}
    /\ IF kaPc = "loop"
         THEN kaPc' = IF running /\ websocket # 0 /\ wsState[websocket] = "open"
                      THEN "sleep" ELSE "done"
         ELSE IF kaPc = "sleep"
         THEN kaPc' = IF websocket # 0 /\ wsState[websocket] = "open"
                      THEN "ping" ELSE "loop"
         ELSE kaPc' = IF wsState[websocket] = "open" THEN "loop" ELSE "failed"
    /\ UNCHANGED <<tls, stopped, tried, entry, running, websocket, wsState, server, listening, nlisteners,
                   reconnect_attempts, runPc, delay, relayVars, connVars, netVars>>

(* ------------------------- the entry points --------------------------- *)
\* client.py:362-368, cli.py:48-55, run_tunnel.py:52-59: the TLS context of
\* the client: none for a ws:// URI, else one that verifies the relay unless
\* the insecure flag is set
Verification(wss, insecure) ==
    IF ~wss THEN "no_tls" ELSE IF insecure THEN "none" ELSE "required"

\* client.py:344-378: main() makes the context, logging nothing, makes the
\* client and calls run().  (run and _reconnect stand at module level behind
\* main, client.py:388-449; they are taken as the methods of TunnelClient
\* that every caller uses them as.)
Main ==
    /\ runPc = "boot"
    /\ tls.via = "main"
    /\ tls' = [tls EXCEPT !.verify = Verification(tls.wss, tls.insecure)]
    /\ runPc' = "init"
    /\ UNCHANGED <<stopped, tried, entry, kaPc, running, websocket, wsState, server, listening,
                   nlisteners, reconnect_attempts, delay, relayVars, connVars, netVars>>

\* run_tunnel.py:50-68: run_client() logs a warning when it disables the
\* verification, makes the client and calls run()
RunClient ==
    /\ runPc = "boot"
    /\ tls.via = "run_tunnel"
    /\ tls' = [tls EXCEPT !.verify = Verification(tls.wss, tls.insecure),
                          !.warned = tls.wss /\ tls.insecure]
    /\ runPc' = "init"
    /\ UNCHANGED <<stopped, tried, entry, kaPc, running, websocket, wsState, server, listening,
                   nlisteners, reconnect_attempts, delay, relayVars, connVars, netVars>>

\* cli.py:43-77: start() logs a warning when it disables the verification
\* and makes the client; the log line at cli.py:68 evaluates
\* 'enabled' not in insecure with insecure a bool, a TypeError, which is
\* logged before sys.exit(1): run() is not called
CliStart ==
    /\ runPc = "boot"
    /\ tls.via = "cli"
    /\ tls' = [tls EXCEPT !.verify = Verification(tls.wss, tls.insecure),
                          !.warned = tls.wss /\ tls.insecure]
    /\ runPc' = "done"
    /\ UNCHANGED <<stopped, tried, entry, kaPc, running, websocket, wsState, server, listening,
                   nlisteners, reconnect_attempts, delay, relayVars, connVars, netVars>>

(* ------------------------------- start() ------------------------------- *)
\* client.py:258-274, 293-297: the SOCKS5 listener is started first, then
\* connect_to_server is called; an OSError from start_server is re-raised
StartListen ==
    /\ runPc = "init"
    /\ entry = "start"
    /\ \E ok \in BOOLEAN :
        IF ok
          THEN /\ nlisteners < MaxListeners
               /\ nlisteners' = nlisteners + 1
               /\ server' = nlisteners + 1
               /\ listening' = listening \cup {nlisteners + 1}
               /\ runPc' = "cts"
          ELSE /\ runPc' = "done"
               /\ UNCHANGED <<server, listening, nlisteners>>
    /\ UNCHANGED <<tls, stopped, tried, entry, kaPc, running, websocket, wsState, reconnect_attempts, delay,
                   relayVars, connVars, netVars>>

(* -------------------------------- run() -------------------------------- *)
\* client.py:395: self.running = True
RunBegin ==
    /\ runPc = "init"
    /\ entry = "run"
    /\ running' = TRUE
    /\ runPc' = "loop"
    /\ UNCHANGED <<tls, stopped, tried, entry, kaPc, websocket, wsState, server, listening, nlisteners,
                   reconnect_attempts, delay, relayVars, connVars, netVars>>

\* client.py:403, 436-437: while self.running: ...; finally: await self.stop()
RunLoop ==
    /\ runPc = "loop"
    /\ IF running
         THEN /\ runPc' = "cts"
              /\ UNCHANGED <<running, wsState, listening>>
         ELSE /\ runPc' = "done"
              /\ running' = FALSE
              /\ listening' = StopListening
              /\ wsState' = StopWebsocket
    /\ UNCHANGED <<tls, stopped, tried, entry, kaPc, websocket, server, nlisteners, reconnect_attempts, delay,
                   relayVars, connVars, netVars>>

\* client.py:411-416, 425-430: self.server = await asyncio.start_server(...).
\* It may raise: a ConnectionError is handled by _reconnect(), any other
\* exception by a 5 s sleep.
RunStartServer ==
    /\ runPc = "start_server"
    /\ \E outcome \in {"ok", "connection_error", "error"} :
        IF outcome = "ok"
          THEN /\ nlisteners < MaxListeners
               /\ nlisteners' = nlisteners + 1
               /\ server' = nlisteners + 1
               /\ listening' = listening \cup {nlisteners + 1}
               /\ runPc' = "serve"
               /\ delay' = delay
          ELSE /\ runPc' = IF outcome = "connection_error" THEN "reconnect" ELSE "err_sleep"
               /\ delay' = IF outcome = "connection_error" THEN delay ELSE RetrySleep
               /\ UNCHANGED <<server, listening, nlisteners>>
    /\ UNCHANGED <<tls, stopped, tried, entry, kaPc, running, websocket, wsState, reconnect_attempts,
                   relayVars, connVars, netVars>>

\* client.py:422-423: while self.running and self.websocket and not
\* self.websocket.closed: sleep(1); the loop is left when that is false
RunServeExit ==
    /\ runPc = "serve"
    /\ ~(running /\ websocket # 0 /\ wsState[websocket] = "open")
    /\ runPc' = "loop"
    /\ UNCHANGED <<tls, stopped, tried, entry, kaPc, running, websocket, wsState, server, listening, nlisteners,
                   reconnect_attempts, delay, relayVars, connVars, netVars>>

\* client.py:447: delay = min(5 * self.reconnect_attempts, 60)
ReconnectDelay(att) == Min(ReconnectStep * att, ReconnectCap)

\* client.py:439-449: _reconnect()
Reconnect ==
    /\ runPc = "reconnect"
    /\ reconnect_attempts' = reconnect_attempts + 1
    /\ IF reconnect_attempts + 1 > max_reconnect_attempts
         THEN /\ running' = FALSE
              /\ runPc' = "loop"
              /\ delay' = delay
         ELSE /\ running' = running
              /\ runPc' = "rc_sleep"
              /\ delay' = ReconnectDelay(reconnect_attempts + 1)
    /\ UNCHANGED <<tls, stopped, tried, entry, kaPc, websocket, wsState, server, listening, nlisteners,
                   relayVars, connVars, netVars>>

\* client.py:398-400, 311-319: SIGINT or SIGTERM while run() is suspended:
\* the handler makes a task of stop(), which sets running to False, closes
\* self.server and closes self.websocket, whichever they are by then.  (A
\* closed server's wait_closed() returns without suspending.)
SignalStop ==
    /\ entry = "run"
    /\ runPc \notin {"boot", "init", "done"}
    /\ ~stopped
    /\ stopped' = TRUE
    /\ running' = FALSE
    /\ listening' = StopListening
    /\ wsState' = StopWebsocket
    /\ UNCHANGED <<tls, tried, entry, kaPc, websocket, server, nlisteners,
                   reconnect_attempts, runPc, delay, relayVars, connVars, netVars>>

(* --------------------------- initial states ---------------------------- *)
\* payload chunks each caller of the session model sends
MaxChunks == 2

\* the caller of connection c in the session model: a whole greeting offering
\* no-auth, a whole CONNECT to 10.0.0.c:443, then chunks only c sends
MainScript(c) ==
    [greet |-> [ver |-> 5, methods |-> <<0>>], gcut |-> 0,
     req |-> [ver |-> 5, cmd |-> 1, atyp |-> 1, addr |-> <<10, 0, 0, c>>, port |-> 443],
     rcut |-> 0,
     data |-> [k \in 1..MaxChunks |-> <<16 * c + k>>]]

\* the state of every local connection before it is accepted
ConnInit(scripts) ==
    /\ intent = scripts
    /\ pc = [c \in Conns |-> "idle"]
    /\ wire = [c \in Conns |-> CallerSegments(scripts[c])]
    /\ rbuf = [c \in Conns |-> <<>>]
    /\ eof = [c \in Conns |-> FALSE]
    /\ need = [c \in Conns |-> 0]
    /\ target = [c \in Conns |-> [host |-> NoneHost, port |-> NonePort]]
    /\ cws = [c \in Conns |-> 0]
    /\ out = [c \in Conns |-> <<>>]
    /\ got = [c \in Conns |-> <<>>]
    /\ closing = [c \in Conns |-> FALSE]

\* TunnelServer.__init__ (server.py:26-37).  The specifications of the client
\* take the relay as their environment (RelayRespond, TransportFail) and do
\* not follow its state; SpecRelay does.
RelayIdle ==
    /\ srvRunning = FALSE
    /\ srvPc = "init"
    /\ accepting = FALSE
    /\ clients = {}
    /\ connections = {}
    /\ notified = {}
    /\ stopCalls = 0
    /\ handling = {}
    /\ forced = {}
    /\ clock = 0
    /\ last_activity = [s \in Sessions |-> 0]
    /\ monPc = "off"
    /\ monitors = 0
    /\ dead = <<>>

NetInit ==
    /\ sent = [s \in Sessions |-> <<>>]
    /\ inbox = [s \in Sessions |-> <<>>]
    /\ waiter = [s \in Sessions |-> 0]

\* a client made by a program of its own, without TLS (client.py:21-30)
Embedded ==
    /\ tls = [via |-> "api", insecure |-> FALSE, wss |-> FALSE, verify |-> "no_tls",
              warned |-> FALSE]
    /\ stopped = FALSE
    /\ tried = 0

\* TunnelClient.__init__ (client.py:21-30), then start() or run() is called
Init ==
    /\ Embedded
    /\ entry \in {"start", "run"}
    /\ running = FALSE
    /\ websocket = 0
    /\ wsState = [s \in Sessions |-> "unused"]
    /\ server = 0
    /\ listening = {}
    /\ nlisteners = 0
    /\ reconnect_attempts = 0
    /\ runPc = "init"
    /\ delay = 0
    /\ kaPc = "none"
    /\ RelayIdle
    /\ ConnInit([c \in Conns |-> MainScript(c)])
    /\ NetInit

\* what the caller of a connection does: connect, write, close
CallerStep(c) ==
    \/ Accept(c)
    \/ Deliver(c)
    \/ LocalEOF(c)

\* the steps of handle_client for a caller that asks for an IPv4 address:
\* each is taken when the read or the recv it awaits can return
HandlerStep(c) ==
    \/ HsHeader(c)
    \/ HsMethods(c)
    \/ RqHeader(c)
    \/ RqAddr4(c)
    \/ RqPort(c)
    \/ RelayRead(c)
    \/ RelaySent(c)
    \/ RelayRecv(c)
    \/ RelayWake(c)
    \/ RelayTimeout(c)
    \/ RelayDrain(c)

\* the steps of a connection
ConnStep(c) ==
    \/ CallerStep(c)
    \/ HandlerStep(c)

\* the steps of the session: start(), run(), connect_to_server, _reconnect
LifeStep ==
    \/ StartListen
    \/ RunBegin
    \/ RunLoop
    \/ ConnectAttempt
    \/ Wake
    \/ RunStartServer
    \/ RunServeExit
    \/ Reconnect

\* the steps of the relay and of the network
NetStep ==
    \/ \E s \in Sessions : RelayRespond(s)
    \/ \E s \in Sessions : TransportFail(s)

(***************************************************************************)
(* Spec: the whole client from construction, with the local connection the *)
(* model follows through the session's life.                               *)
(***************************************************************************)
Followed == {1}

Next ==
    \/ LifeStep
    \/ SignalStop
    \/ Keepalive
    \/ \E c \in Followed : ConnStep(c)
    \/ \E c \in Followed : Cancel(c)
    \/ NetStep

Spec == Init /\ [][Next]_vars

(***************************************************************************)
(* SpecExits: Spec with the callers that make handle_client end in each of *)
(* its ways: one that is served, one that greets with version 4, one that  *)
(* asks for BIND.  Every caller has one chunk of payload.                  *)
(***************************************************************************)
ExitScripts ==
    {[MainScript(1) EXCEPT !.data = Take(MainScript(1).data, 1)],
     [MainScript(1) EXCEPT !.greet.ver = 4, !.data = Take(MainScript(1).data, 1)],
     [MainScript(1) EXCEPT !.req.cmd = 2, !.data = Take(MainScript(1).data, 1)]}

ExitInit ==
    /\ Embedded
    /\ entry \in {"start", "run"}
    /\ running = FALSE
    /\ websocket = 0
    /\ wsState = [s \in Sessions |-> "unused"]
    /\ server = 0
    /\ listening = {}
    /\ nlisteners = 0
    /\ reconnect_attempts = 0
    /\ runPc = "init"
    /\ delay = 0
    /\ kaPc = "none"
    /\ RelayIdle
    /\ \E sc \in ExitScripts :
        ConnInit([c \in Conns |-> IF c = 1 THEN sc ELSE MainScript(c)])
    /\ NetInit

SpecExits == ExitInit /\ [][Next]_vars

(***************************************************************************)
(* SpecBoot: the client from each of its entry points, with and without    *)
(* TLS and the insecure flag, through the life of run().                   *)
(***************************************************************************)
BootInit ==
    /\ tls \in [via : {"main", "cli", "run_tunnel"}, insecure : BOOLEAN, wss : BOOLEAN,
                 verify : {"unset"}, warned : {FALSE}]
    /\ stopped = FALSE
    /\ tried = 0
    /\ entry = "run"
    /\ running = FALSE
    /\ websocket = 0
    /\ wsState = [s \in Sessions |-> "unused"]
    /\ server = 0
    /\ listening = {}
    /\ nlisteners = 0
    /\ reconnect_attempts = 0
    /\ runPc = "boot"
    /\ delay = 0
    /\ kaPc = "none"
    /\ RelayIdle
    /\ ConnInit([c \in Conns |-> MainScript(c)])
    /\ NetInit

BootNext ==
    \/ Main
    \/ RunClient
    \/ CliStart
    \/ RunBegin
    \/ RunLoop
    \/ ConnectAttempt
    \/ Wake
    \/ RunStartServer
    \/ RunServeExit
    \/ Reconnect
    \/ \E s \in Sessions : TransportFail(s)

SpecBoot == BootInit /\ [][BootNext]_vars

(***************************************************************************)
(* FairSpec: Spec under the scheduling of the asyncio event loop.  A       *)
(* coroutine whose await can return is resumed, and a sleep or a timeout   *)
(* that was set expires: a step of the client or of a handler that stays   *)
(* possible is taken.  Nothing is assumed of the caller, the relay or the  *)
(* network.                                                                *)
(***************************************************************************)
FairSpec ==
    /\ Spec
    /\ WF_vars(LifeStep)
    /\ WF_vars(Keepalive)
    /\ \A c \in Followed : WF_vars(HandlerStep(c))

(***************************************************************************)
(* SpecLife: the client's lifecycle alone, no local connection followed:   *)
(* start() or run(), the keepalive task, failures of the transport and the *)
(* stop signal.  FairLife: the client's tasks take the steps they can.     *)
(***************************************************************************)
LifeNext ==
    \/ LifeStep
    \/ SignalStop
    \/ Keepalive
    \/ \E s \in Sessions : TransportFail(s)

SpecLife == Init /\ [][LifeNext]_vars

FairLife ==
    /\ SpecLife
    /\ WF_vars(LifeStep)
    /\ WF_vars(Keepalive)

(***************************************************************************)
(* The state run() reaches once it has connected and started the SOCKS5    *)
(* listener (client.py:395-423): the first session open, one listener.     *)
(***************************************************************************)
Serving ==
    /\ Embedded
    /\ entry = "run"
    /\ running = TRUE
    /\ websocket = 1
    /\ wsState = [s \in Sessions |-> IF s = 1 THEN "open" ELSE "unused"]
    /\ server = 1
    /\ listening = {1}
    /\ nlisteners = 1
    /\ reconnect_attempts = 0
    /\ runPc = "serve"
    /\ delay = 0
    /\ kaPc = "none"

(***************************************************************************)
(* SpecMux: all local connections relaying over the one session of a       *)
(* serving client.                                                         *)
(***************************************************************************)
MuxInit ==
    /\ Serving
    /\ RelayIdle
    /\ ConnInit([c \in Conns |-> MainScript(c)])
    /\ NetInit

MuxNext ==
    \/ \E c \in Conns : ConnStep(c)
    \/ NetStep

SpecMux == MuxInit /\ [][MuxNext]_vars

(***************************************************************************)
(* SpecSocks: one local connection of a serving client, over the greetings *)
(* and requests a caller may write and the segments they may arrive in.    *)
(***************************************************************************)
Greetings ==
    {[ver |-> 5, methods |-> <<0>>], [ver |-> 5, methods |-> <<1>>],
     [ver |-> 5, methods |-> <<1, 0>>], [ver |-> 5, methods |-> <<>>],
     [ver |-> 4, methods |-> <<0>>]}
Requests ==
    {[ver |-> 5, cmd |-> 1, atyp |-> 1, addr |-> <<93, 184, 216, 34>>, port |-> 443],
     [ver |-> 5, cmd |-> 1, atyp |-> 3, addr |-> <<97, 98>>, port |-> 80],
     [ver |-> 5, cmd |-> 1, atyp |-> 3, addr |-> <<97, 34, 92, 9>>, port |-> 8080],
     [ver |-> 5, cmd |-> 1, atyp |-> 3, addr |-> <<200>>, port |-> 80],
     [ver |-> 5, cmd |-> 1, atyp |-> 4,
      addr |-> <<32, 1, 13, 184, 0, 0, 0, 0, 0, 0, 0, 0, 0, 0, 0, 1>>, port |-> 8080],
     [ver |-> 5, cmd |-> 2, atyp |-> 1, addr |-> <<10, 0, 0, 1>>, port |-> 80],
     [ver |-> 5, cmd |-> 1, atyp |-> 5, addr |-> <<7>>, port |-> 80],
     [ver |-> 4, cmd |-> 1, atyp |-> 1, addr |-> <<10, 0, 0, 1>>, port |-> 80]}
\* where a greeting, a request may be cut into two segments (0: not cut)
GreetingCuts == {0, 1, 3}
RequestCuts == {0, 2, 6, 9}
\* the payload of the one caller: two bytes, in one segment
SocksPayload == <<<<26, 240>>>>

SocksScripts ==
    {[greet |-> g, gcut |-> gc, req |-> r, rcut |-> rc, data |-> SocksPayload] :
        g \in Greetings, gc \in GreetingCuts, r \in Requests, rc \in RequestCuts}

SocksInit ==
    /\ Serving
    /\ RelayIdle
    /\ \E sc \in SocksScripts :
        ConnInit([c \in Conns |-> IF c = 1 THEN sc ELSE MainScript(c)])
    /\ NetInit

SocksNext ==
    \/ \E c \in Followed :
        \/ ConnStep(c)
        \/ RqAddr16(c)
        \/ RqDomainLen(c)
        \/ RqDomainName(c)
    \/ NetStep

SpecSocks == SocksInit /\ [][SocksNext]_vars

(***************************************************************************)
(* SpecLocal: the local connections of a serving client where the first    *)
(* may fail on its own: its caller greets with version 4, or its request   *)
(* header arrives in two segments, or it is served and the peer answers    *)
(* with an error, with a text that is no JSON, or not in time.  Every      *)
(* caller has one chunk of payload.                                        *)
(***************************************************************************)
\* the script with the first chunk of its payload only
OneChunk(sc) == [sc EXCEPT !.data = Take(sc.data, 1)]

LocalScripts ==
    {OneChunk(MainScript(1)),
     OneChunk([MainScript(1) EXCEPT !.greet.ver = 4]),
     OneChunk([MainScript(1) EXCEPT !.rcut = 2])}

LocalInit ==
    /\ Serving
    /\ RelayIdle
    /\ \E sc \in LocalScripts :
        ConnInit([c \in Conns |-> IF c = 1 THEN sc ELSE OneChunk(MainScript(c))])
    /\ NetInit

SpecLocal == LocalInit /\ [][MuxNext]_vars

(***************************************************************************)
(* SpecBulk: one local connection of a serving client whose caller writes  *)
(* nothing or about one read chunk, in one segment or in two.  The relay   *)
(* does not answer in time: each handler reads and sends once, then its    *)
(* recv() times out.                                                       *)
(***************************************************************************)
\* n bytes of payload
Bulk(n) == [i \in 1..n |-> i % 256]

\* no payload, payloads of one byte less than, exactly and one byte more
\* than a read chunk, and one that reaches a chunk and two bytes in two
\* segments
BulkPayloads ==
    {<<>>, <<Bulk(ReadChunk - 1)>>, <<Bulk(ReadChunk)>>, <<Bulk(ReadChunk + 1)>>,
     <<Bulk(ReadChunk - 1), <<1, 2, 3>>>>}

BulkInit ==
    /\ Serving
    /\ RelayIdle
    /\ \E d \in BulkPayloads :
        ConnInit([c \in Conns |-> IF c = 1 THEN [MainScript(c) EXCEPT !.data = d]
                                  ELSE MainScript(c)])
    /\ NetInit

BulkNext ==
    \/ \E c \in Followed :
        \/ CallerStep(c)
        \/ HsHeader(c)
        \/ HsMethods(c)
        \/ RqHeader(c)
        \/ RqAddr4(c)
        \/ RqPort(c)
        \/ RelayRead(c)
        \/ RelaySent(c)
        \/ RelayRecv(c)
        \/ RelayTimeout(c)
    \/ \E s \in Sessions : TransportFail(s)

SpecBulk == BulkInit /\ [][BulkNext]_vars

(***************************************************************************)
(* SpecRelay: the relay with the client.  It starts where TunnelServer     *)
(* .start() waits (server.py:230-272) with the session of a serving client *)
(* accepted; a second client may connect; the relay is stopped at any      *)
(* time.                                                                   *)
(***************************************************************************)
RelayServing ==
    /\ srvRunning = TRUE
    /\ srvPc = "serving"
    /\ accepting = TRUE
    /\ clients = {1}
    /\ connections = {1}
    /\ notified = {}
    /\ stopCalls = 0
    /\ handling = {1}
    /\ forced = {}
    /\ clock = 0
    /\ last_activity = [s \in Sessions |-> 0]
    /\ monPc = "sleep"
    /\ monitors = 1
    /\ dead = <<>>

RelayInit ==
    /\ Serving
    /\ RelayServing
    /\ ConnInit([c \in Conns |-> MainScript(c)])
    /\ NetInit

\* the steps of TunnelServer and of its connection manager
SrvStep ==
    \/ SrvAccept
    \/ \E s \in Sessions : SrvProcess(s)
    \/ \E s \in Sessions : SrvCleanup(s)
    \/ SrvStopBegin
    \/ SrvStopCleanup
    \/ SrvStopNotify
    \/ SrvStopGrace
    \/ SrvStopCloseAll

RelayNext ==
    \/ \E c \in Followed : ConnStep(c)
    \/ SrvStep
    \/ \E s \in Sessions : TransportFail(s)

SpecRelay == RelayInit /\ [][RelayNext]_vars

(***************************************************************************)
(* SpecMonitor: the relay with its monitor and its clock.  It starts where *)
(* SpecRelay starts; the clients of its sessions send a message at any     *)
(* time, a second client may connect, time passes, the relay is stopped at *)
(* any time.  The local connections of the client are not followed.        *)
(***************************************************************************)
\* a text message of a client
PeerMessage == [text |-> <<112, 105, 110, 103>>, src |-> 0, raw |-> <<>>]

\* the client of session s sends a message, once the last was answered
PeerSend(s) ==
    /\ wsState[s] = "open"
    /\ sent[s] = <<>>
    /\ inbox[s] = <<>>
    /\ sent' = [sent EXCEPT ![s] = <<PeerMessage>>]
    /\ UNCHANGED <<lifeVars, relayVars, connVars, inbox, waiter>>

\* the steps of the monitor task
MonStep ==
    \/ MonPass
    \/ MonCleanup

\* the steps of stop() once it was called
StopStep ==
    \/ SrvStopCleanup
    \/ SrvStopNotify
    \/ SrvStopGrace
    \/ SrvStopCloseAll

\* the steps of the handler of session s
SrvHandlerStep(s) ==
    \/ SrvProcess(s)
    \/ SrvCleanup(s)

MonitorNext ==
    \/ SrvAccept
    \/ SrvStopBegin
    \/ StopStep
    \/ MonStep
    \/ Tick
    \/ \E s \in Sessions : SrvHandlerStep(s)
    \/ \E s \in Sessions : PeerSend(s)
    \/ \E s \in Sessions : TransportFail(s)

SpecMonitor == RelayInit /\ [][MonitorNext]_vars

(***************************************************************************)
(* SpecStop: the relay and its clients as in SpecMonitor, without the       *)
(* passing of time, with further calls of stop(), made at any time by the  *)
(* signal handler or by the finally blocks of start() and main().          *)
(***************************************************************************)
StopNext ==
    \/ SrvAccept
    \/ SrvStopBegin
    \/ SrvStopAgain
    \/ StopStep
    \/ \E s \in Sessions : SrvHandlerStep(s)
    \/ \E s \in Sessions : PeerSend(s)
    \/ \E s \in Sessions : TransportFail(s)

SpecStop == RelayInit /\ [][StopNext]_vars

(***************************************************************************)
(* SpecManager: the connection manager of a running relay, whose           *)
(* start_monitoring, stop_monitoring and close_all are called one after    *)
(* another in any order, at any time.                                      *)
(***************************************************************************)
ManagerNext ==
    \/ StartMonitoring
    \/ StopMonitoring
    \/ CloseAll
    \/ SrvAccept
    \/ MonStep
    \/ Tick
    \/ \E s \in Sessions : SrvHandlerStep(s)
    \/ \E s \in Sessions : PeerSend(s)
    \/ \E s \in Sessions : TransportFail(s)

SpecManager == RelayInit /\ [][ManagerNext]_vars

(***************************************************************************)
(* FairMonitor: SpecMonitor under the scheduling of the relay's event      *)
(* loop: the monitor task, stop() once called and every handler take the   *)
(* steps they can take.  Nothing is assumed of the clients, of the network *)
(* or of the time that passes.                                             *)
(***************************************************************************)
FairMonitor ==
    /\ SpecMonitor
    /\ WF_vars(MonStep)
    /\ WF_vars(StopStep)
    /\ \A s \in Sessions : WF_vars(SrvHandlerStep(s))

(***************************************************************************)
(*                              Properties                                 *)
(***************************************************************************)
\* the elements of a sequence
SeqSet(q) == {q[i] : i \in 1..Len(q)}
\* the messages in flight: sent and not yet answered, or received and not
\* yet taken by a handler
InFlight == UNION {SeqSet(sent[s]) \cup SeqSet(inbox[s]) : s \in Sessions}
\* whether p is an initial part of q
IsPrefix(p, q) == Len(p) <= Len(q) /\ p = SubSeq(q, 1, Len(p))
\* the bytes written to the socket of connection c behind the two SOCKS5
\* replies: what the relay returned to it
Returned(c) == Flatten(SubSeq(out[c], 3, Len(out[c])))
\* the transport connection is up
TransportUp == websocket # 0 /\ wsState[websocket] = "open"

\* C1: Multiplexing isolation.  Of local connections that relay over the one
\* shared websocket, each is written only responses to its own requests, and
\* what it is written is, in order and without a gap, the bytes the relay
\* returns for what it sent (the relay returns each message as it came), under
\* every interleaving of the handlers' send and recv steps.
C1_MultiplexingIsolation ==
    \A c \in Conns :
        /\ \A i \in 1..Len(got[c]) : got[c][i] = c
        /\ IsPrefix(Returned(c), Flatten(intent[c].data))

\* a local connection that is open on a session whose transport has failed
OnFailedSession(c) ==
    /\ pc[c] \notin {"idle", "closed"}
    /\ cws[c] # 0
    /\ wsState[cws[c]] = "closed"

\* C2: Reconnection.  Whenever the transport connection has failed, every
\* local connection that was open on that session is eventually closed,
\* whether or not its caller sends or closes anything more.
C2_Reconnection ==
    \A c \in Followed : OnFailedSession(c) ~> (pc[c] = "closed")

\* the multipliers 3/2 and 2 of an exponential backoff, as fractions
Multipliers == {<<3, 2>>, <<2, 1>>}
\* d = min(initial * mult^n, max) with initial = reconnect_delay and
\* max = ReconnectCap, in integers
IsBackoff(d, n, mult) ==
    d * mult[2]^n = Min(reconnect_delay * mult[1]^n, ReconnectCap * mult[2]^n)

\* C3: Backoff sequence.  The delay slept before the next connection attempt
\* after n consecutive failures is min(initial * multiplier^n, max), whether
\* the first delay is counted as n = 0 or as n = 1, for a multiplier of the
\* exponential backoff.
C3_BackoffSequence ==
    runPc \in {"cts_sleep", "rc_sleep"} =>
        \E mult \in Multipliers :
            \E n \in {reconnect_attempts - 1, reconnect_attempts} :
                IsBackoff(delay, n, mult)

\* C4: Terminal failure.  Once consecutive failures have brought the attempt
\* count to max_reconnect_attempts the client stops: it never goes round to
\* connect_to_server again with the count at the maximum, under start() and
\* under run().
C4_TerminalFailure ==
    reconnect_attempts >= max_reconnect_attempts => runPc # "cts"

\* the caller of c offers the method in its greeting
Offers(c, method) == method \in SeqSet(intent[c].greet.methods)
\* _socks5_handshake has ended for c
HandshakeOver(c) == pc[c] \notin {"idle", "hs_hdr", "hs_methods"}

\* C5: SOCKS5 greeting.  For every greeting of version 5: when the handshake
\* is over, the caller that offered method 0 was answered 05 00; the caller
\* that did not was answered 05 FF and nothing else, its connection is
\* closed, no request of it was read and no message of it is on the
\* transport.
C5_Greeting ==
    \A c \in Followed :
        intent[c].greet.ver = 5 /\ HandshakeOver(c) =>
            IF Offers(c, 0)
              THEN Len(out[c]) >= 1 /\ out[c][1] = ReplyNoAuth
              ELSE /\ out[c] = <<ReplyNoMethods>>
                   /\ pc[c] = "closed"
                   /\ target[c] = [host |-> NoneHost, port |-> NonePort]
                   /\ \A m \in InFlight : m.src # c

\* the request of c is one the ingress rejects: a command other than CONNECT
\* or an address type other than IPv4, domain name, IPv6
Rejected(c) ==
    /\ intent[c].req.ver = 5
    /\ intent[c].req.cmd # 1 \/ intent[c].req.atyp \notin {1, 3, 4}
\* the reply to it
RejectReply(c) ==
    IF intent[c].req.cmd # 1 THEN ReplyCmdNotSupported ELSE ReplyAtypNotSupported

\* C6: Rejected requests are closed and never relayed.  Once a request with
\* a command other than CONNECT or with an unsupported address type was
\* answered, the answer is the failure reply (07, 08), the local connection
\* is closed and no data message of it is on the transport.
C6_RejectedNotRelayed ==
    \A c \in Followed :
        Rejected(c) /\ Len(out[c]) >= 2 =>
            /\ out[c] = <<ReplyNoAuth, RejectReply(c)>>
            /\ pc[c] = "closed"
            /\ \A m \in InFlight : m.src # c

\* a data message of a connection whose request was rejected is on the
\* transport
C6_RelayedAfterReject ==
    \E c \in Followed : Rejected(c) /\ \E m \in InFlight : m.src = c

\* the relay has answered a message of c with an error: it could not reach
\* the destination
ErrorFor(c) ==
    \E s \in Sessions : \E i \in 1..Len(inbox[s]) :
        inbox[s][i].src = c /\ Disposition(inbox[s][i]) = "break"

\* C7: Dead destination.  A caller whose destination the relay could not
\* reach is not sent the success reply 05 00.
C7_DeadDestination ==
    \A c \in Conns : ErrorFor(c) => ReplySuccess \notin SeqSet(out[c])

\* C8: Tunnel-down errors.  The success reply 05 00 is written to a caller
\* only while the transport connection is up.
C8_TunnelDownReply ==
    [][\A c \in Followed :
          (Len(out'[c]) > Len(out[c]) /\ out'[c][Len(out'[c])] = ReplySuccess)
              => TransportUp]_vars

\* the request of c is a well-formed CONNECT to an IPv4 address or to a
\* domain name
WellFormed(c) ==
    /\ intent[c].req.ver = 5
    /\ intent[c].req.cmd = 1
    /\ \/ intent[c].req.atyp = 1 /\ Len(intent[c].req.addr) = 4
       \/ intent[c].req.atyp = 3 /\ AsciiOk(intent[c].req.addr)
\* the destination it asks for: ("a.b.c.d", p) or (name, p)
Destination(c) ==
    [host |-> IF intent[c].req.atyp = 1 THEN InetNtop4(intent[c].req.addr)
              ELSE intent[c].req.addr,
     port |-> intent[c].req.port]

\* C9: Address parsing.  Whenever _get_target_address yields a destination
\* for a well-formed CONNECT request to an IPv4 address or a domain name, it
\* is the host and the port of the request.
C9_AddressParsing ==
    \A c \in Followed :
        WellFormed(c) /\ target[c].port # NonePort => target[c] = Destination(c)

\* C10: Frame round-trip.  Every data message the client has put on the
\* transport is decoded (json.loads, bytes.fromhex) to the type "data", the
\* target host and port and the payload bytes it was built from.
C10_FrameRoundTrip ==
    \A s \in Sessions : \A i \in 1..Len(sent[s]) :
        /\ Disposition(sent[s][i]) = "write"
        /\ DecodeMessage(sent[s][i]) =
              [type |-> TextData,
               target_host |-> target[sent[s][i].src].host,
               target_port |-> target[sent[s][i].src].port,
               data |-> sent[s][i].raw]

\* a data message is on the transport whose host needs escapes in JSON and
\* whose payload has two bytes of unlike nibbles
C10_RoundTripHappens ==
    \E s \in Sessions : \E i \in 1..Len(sent[s]) :
        /\ sent[s][i].raw = <<26, 240>>
        /\ target[sent[s][i].src].host = <<97, 34, 92, 9>>


\* connect_to_server returns True in this step
ReturnsTrue == runPc = "cts" /\ runPc' \in {"start_server", "serve_forever"}

\* C11: Attempt counter reset.  Whenever connect_to_server returns True, the
\* attempt counter is 0 and self.websocket is set to an open connection,
\* whatever the counter was when the attempt was made.
C11_AttemptCounterReset ==
    [][ReturnsTrue =>
          /\ reconnect_attempts' = 0
          /\ websocket' # 0
          /\ wsState'[websocket'] = "open"]_vars

\* connect_to_server has returned True for the second time: the counter is
\* 0 and the second session is open
C11_ConnectedAgain ==
    /\ runPc = "start_server"
    /\ websocket = 2
    /\ wsState[2] = "open"
    /\ reconnect_attempts = 0

\* the client has connected and its connection was then found dead: a
\* keepalive ping of it has failed
KeepaliveFailed ==
    /\ runPc \in {"serve", "serve_forever"}
    /\ websocket # 0
    /\ wsState[websocket] = "closed"

\* C12: Keepalive.  While the client is connected, under start() and under
\* run(), the connection is pinged at a fixed interval, and once a ping has
\* failed (the connection is dead) the client makes a new connection attempt.
C12_Keepalive == KeepaliveFailed ~> (runPc = "cts")

\* the coroutines that are inside a write to the transport connection: the
\* handlers suspended in websocket.send and the keepalive task in ping
Writers == {c \in Conns : pc[c] = "relay_send"} \cup (IF kaPc = "ping" THEN {0} ELSE {})

\* C13: Single writer.  At no time are two coroutines inside a write to the
\* one transport connection.
C13_SingleWriter == Cardinality(Writers) <= 1

\* C14: Per-connection ordering while relaying.  A data message put on the
\* transport for a local connection carries the oldest bytes buffered from
\* its socket, and a data message taken from the transport is written to the
\* socket of the connection whose request it answers, the oldest first, once.
C14_PerConnectionOrdering ==
    [][\A s \in Sessions :
          /\ (Len(sent'[s]) = Len(sent[s]) + 1) =>
                LET m == sent'[s][Len(sent'[s])] IN
                    m.raw \o rbuf'[m.src] = rbuf[m.src]
          /\ (inbox[s] # <<>> /\ inbox'[s] = Tail(inbox[s])
                  /\ Disposition(Head(inbox[s])) = "write") =>
                LET m == Head(inbox[s]) IN
                    /\ m.src \in Conns
                    /\ out'[m.src] = Append(out[m.src], DecodeMessage(m).data)]_vars

\* the type of a message that closes one stream, as a text
TextClose == <<99, 108, 111, 115, 101>>
\* m is a message of type "close"
IsClose(m) ==
    The({r.ok /\ HasKey(r.obj, KeyType) /\ Get(r.obj, KeyType) = JStr(TextClose) :
         r \in {JsonLoads(m.text)}})

\* C15: Half-close on EOF.  When a handler that relays over an open transport
\* connection reads EOF from its local socket and closes, it has put a close
\* message on the transport.
C15_HalfCloseOnEOF ==
    [][\A c \in Conns :
          (/\ pc[c] = "relay_read" /\ pc'[c] = "closed"
           /\ rbuf[c] = <<>> /\ eof[c]
           /\ wsState[cws[c]] = "open") =>
              /\ Len(sent'[cws[c]]) = Len(sent[cws[c]]) + 1
              /\ IsClose(sent'[cws[c]][Len(sent'[cws[c]])])]_vars

\* C16: Malformed frames fail closed.  When a handler takes a message from
\* the transport that cannot be decoded, the transport connection is closed.
C16_MalformedFailsClosed ==
    [][\A s \in Sessions :
          (/\ inbox[s] # <<>> /\ inbox'[s] = Tail(inbox[s])
           /\ Disposition(Head(inbox[s])) = "raise") =>
              wsState'[s] = "closed"]_vars

\* nothing of local connection d changes in this step
SameConn(d) ==
    /\ pc'[d] = pc[d] /\ out'[d] = out[d] /\ rbuf'[d] = rbuf[d]
    /\ wire'[d] = wire[d] /\ eof'[d] = eof[d] /\ target'[d] = target[d]
    /\ cws'[d] = cws[d] /\ got'[d] = got[d]
    /\ \A s \in Sessions : waiter[s] = d => waiter'[s] = d

\* C17: Stream-local failures do not propagate.  A step in which the handler
\* of one local connection closes it (bad greeting or request, error
\* response, response timeout, end of its socket) leaves the transport
\* connection, the attempt counter, the listener and every other local
\* connection as they were.
C17_StreamLocalFailure ==
    [][\A c \in Conns :
          (pc[c] # "closed" /\ pc'[c] = "closed") =>
              /\ websocket' = websocket /\ wsState' = wsState
              /\ reconnect_attempts' = reconnect_attempts
              /\ server' = server /\ listening' = listening
              /\ sent' = sent
              /\ \A d \in Conns \ {c} : SameConn(d)]_vars

\* one local connection was closed by its handler though its caller had not
\* closed and its transport connection is open, while another is waiting for
\* its response on that connection
C17_ClosedBesideRelaying ==
    \E c \in Conns : \E d \in Conns \ {c} :
        /\ pc[c] = "closed" /\ ~eof[c]
        /\ cws[c] # 0 /\ wsState[cws[c]] = "open"
        /\ pc[d] = "relay_wait" /\ cws[d] = cws[c]

\* C18: Exactly one transport session.  At most one transport connection of
\* the client is open in any state: a new one is opened only after the
\* previous one was closed.
C18_OneTransportSession ==
    Cardinality({s \in Sessions : wsState[s] = "open"}) <= 1

\* the relay closes the connection of session s in this step of stop()
ClosedByStop(s) ==
    /\ srvPc' # srvPc
    /\ wsState[s] = "open"
    /\ wsState'[s] = "closed"

\* C19: Graceful shutdown on the relay.  Once stop() has begun no client is
\* accepted, and a connection that stop() closes is closed by close_all,
\* after its client was notified and the grace period has passed.
C19_GracefulShutdown ==
    [][/\ srvPc \notin {"init", "serving"} =>
            clients' \subseteq clients /\ connections' \subseteq connections
       /\ \A s \in Sessions :
            ClosedByStop(s) => s \in notified /\ srvPc = "stop_close"]_vars

\* the bytes the relay has read from the destination of session s: it opens
\* no destination socket (connection_manager.py:77-88)
DestinationRead(s) == <<>>

\* C20: Relay forwarding.  The payload of every data message the relay has
\* sent back to a client is bytes it read from the destination, never the
\* client's own bytes.
C20_RelayForwarding ==
    \A s \in Sessions : \A i \in 1..Len(inbox[s]) :
        Disposition(inbox[s][i]) = "write" =>
            IsPrefix(DecodeMessage(inbox[s][i]).data, DestinationRead(s))


\* the text of data message m ends with its payload in hexadecimal, the
\* closing quote and the closing brace
CarriesPayload(m) ==
    /\ Len(m.text) >= 2 * Len(m.raw) + 2
    /\ SubSeq(m.text, Len(m.text) - 2 * Len(m.raw) - 1, Len(m.text)) =
            Hex(m.raw) \o <<34, 125>>

\* C21: every data message the client has put on the transport carries a
\* payload of at most the read chunk size of 4096 bytes, and the message is
\* no longer than the configured maximum message size.
C21_BoundedPayload ==
    \A s \in Sessions : \A i \in 1..Len(sent[s]) :
        /\ CarriesPayload(sent[s][i])
        /\ Len(sent[s][i].raw) <= ReadChunk
        /\ Len(sent[s][i].text) <= max_size

\* C21 happens: a message with a payload of a whole chunk was sent while
\* more bytes of the caller were buffered
C21_ChunkCutOff ==
    \E c \in Conns :
        /\ rbuf[c] # <<>>
        /\ \E s \in Sessions : \E i \in 1..Len(sent[s]) :
            sent[s][i].src = c /\ Len(sent[s][i].raw) = ReadChunk


\* C22: for every accepted local connection, whichever way handle_client
\* has ended, its local socket is closed once handle_client has returned.
C22_ReleaseOnEveryExit ==
    \A c \in Conns : pc[c] = "closed" => closing[c]

\* C22 happens: the handler of a caller whose request was rejected has
\* returned after the client was stopped, its socket closed
C22_ReturnedRejected ==
    \E c \in Conns :
        /\ pc[c] = "closed"
        /\ closing[c]
        /\ intent[c].req.cmd = 2
        /\ Len(out[c]) >= 2
        /\ runPc = "done"


\* the client has connected to the relay
HasConnected == \E s \in Sessions : wsState[s] # "unused"

\* C23: Insecure mode is never silent.  Whenever a client whose entry point
\* disabled the verification of the relay's certificate has connected, a
\* warning was logged.
C23_InsecureNeverSilent ==
    (tls.verify = "none" /\ HasConnected) => tls.warned


\* the monitor removes session s from the registry in this step: the
\* connection is popped while its handler goes on and stop() takes no step
ByMonitor(s) ==
    /\ s \in connections
    /\ s \notin connections'
    /\ s \in handling'
    /\ srvPc' = srvPc

\* C24: Relay dead-connection detection.  The monitor removes a managed
\* connection from the registry only if its time since last activity exceeds
\* 3 x ping_interval: a connection whose last activity is within that grace
\* window is never removed by the monitor.
C24_DeadConnectionDetection ==
    [][\A s \in Sessions : ByMonitor(s) => clock - last_activity[s] > GracePeriod]_vars

\* C25: Handler termination after a forced close.  Whenever the relay has
\* closed a client's connection itself while its handler waited for the next
\* message, the handler eventually returns and the client is no longer in
\* TunnelServer.clients.
C25_HandlerTermination ==
    \A s \in Sessions : (s \in forced) ~> (s \notin handling /\ s \notin clients)

\* C26: Registry consistency on the relay.  A websocket is in
\* ConnectionManager.connections only while its handle_connection call is
\* in progress, and every websocket in ConnectionManager.connections is
\* also in TunnelServer.clients.
C26_RegistryConsistency ==
    /\ connections \subseteq handling
    /\ connections \subseteq clients

\* C26 happens: two connections were registered; the monitor has popped one,
\* whose handler goes on, and the other is still managed
C26_PoppedBesideManaged ==
    /\ connections # {}
    /\ (clients \cap handling) \ connections # {}


\* C27: Single SOCKS5 listener.  At most one SOCKS5 listening server
\* created by the client is open at a time, across the reconnects of run().
C27_SingleListener == Cardinality(listening) <= 1

\* C28: No restart after stop.  Once stop() has been called, no step opens
\* a new transport connection or starts a new SOCKS5 listener.
C28_NoRestartAfterStop ==
    [][stopped =>
        /\ \A s \in Sessions : wsState[s] = "unused" => wsState'[s] = "unused"
        /\ nlisteners' = nlisteners]_vars

\* C29: Shutdown terminates.  After stop() was called by a signal run()
\* eventually returns, and when it has returned no SOCKS5 listener and no
\* transport connection of the client is open.
C29_ShutdownTerminates ==
    /\ stopped ~> (runPc = "done")
    /\ [](stopped /\ runPc = "done" =>
            listening = {} /\ \A s \in Sessions : wsState[s] # "open")

\* C30: Attempt counter bound.  In every reachable state
\* 0 <= reconnect_attempts <= max_reconnect_attempts.
C30_AttemptCounterBound ==
    reconnect_attempts >= 0 /\ reconnect_attempts <= max_reconnect_attempts

\* C30 happens: after a transport session was made, connect_to_server, called
\* again by run(), has counted refusals up to the maximum
C30_AtMaximumAfterSession ==
    /\ reconnect_attempts = max_reconnect_attempts
    /\ entry = "run"
    /\ \E s \in Sessions : wsState[s] # "unused"


\* connect_to_server is running: at its attempt or in the sleep before the next
InCall == runPc \in {"cts", "cts_sleep"}

\* connect_to_server returns False in this step
ReturnsFalse == runPc = "cts" /\ runPc' \in {"retry_sleep", "done"}

\* C31: connect_to_server always terminates.  Every call returns; it makes
\* at most max_reconnect_attempts attempts; a non-retryable failure makes it
\* return False in that step with reconnect_attempts unchanged; and it
\* returns True only in a step in which an attempt opened a connection.
C31_ConnectTerminates ==
    /\ InCall ~> ~InCall
    /\ [][runPc = "cts" =>
            /\ tried + 1 <= max_reconnect_attempts
            /\ Attempt("fatal") =>
                    ReturnsFalse /\ reconnect_attempts' = reconnect_attempts
            /\ ReturnsTrue =>
                    \E s \in Sessions : /\ wsState[s] = "unused"
                                         /\ wsState'[s] = "open"
                                         /\ websocket' = s]_vars

\* C31 happens: a call of connect_to_server has returned False on a
\* non-retryable failure after refusals, with the counter where they left it
C31_FatalAfterRefusals ==
    /\ runPc = "retry_sleep"
    /\ reconnect_attempts > 0
    /\ reconnect_attempts < max_reconnect_attempts


\* C32: Relay stop postcondition.  When TunnelServer.stop() has completed,
\* running is False, TunnelServer.clients and ConnectionManager.connections
\* are empty, no websocket the relay accepted is open and the monitor task
\* is not running, whether or not a step of the shutdown raised.
C32_StopPostcondition ==
    srvPc = "done" =>
        /\ ~srvRunning
        /\ clients = {}
        /\ connections = {}
        /\ \A s \in Sessions : wsState[s] # "open"
        /\ monPc = "off"


\* the relay sends SERVER_SHUTDOWN to the client of session s in this step
ShutdownSentTo(s) ==
    /\ Len(inbox'[s]) > Len(inbox[s])
    /\ inbox'[s][Len(inbox'[s])] = ShutdownMessage

\* C33: Relay stop is idempotent.  A call of TunnelServer.stop() made while
\* the relay is not running changes no state and sends nothing, and no
\* client is sent the shutdown notification twice, however often and
\* whenever stop() is called.
C33_StopIdempotent ==
    [][/\ \A s \in Sessions : ShutdownSentTo(s) => s \notin notified
       /\ (stopCalls' # stopCalls /\ ~srvRunning) =>
              UNCHANGED <<lifeVars, srvRunning, srvPc, accepting, notified, regVars,
                          monVars, connVars, netVars>>]_vars

\* C33 happens: a client was notified, and stop() has been called again
\* while the first call is in its grace period
C33_CalledAgainWhileStopping ==
    /\ stopCalls >= 2
    /\ srvPc = "stop_grace"
    /\ notified # {}


\* C34: Single monitor task.  At most one connection-monitor task is
\* alive; start_monitoring called while one is alive makes no second one;
\* and when stop_monitoring or close_all has returned none is alive.
C34_SingleMonitorTask ==
    [][/\ monitors' <= 1
       /\ monitors >= 1 => monitors' <= monitors
       /\ monPc' = "off" => monitors' = 0]_vars

\* C34 happens: before any time has passed close_all has closed a
\* connection whose handler was waiting, and start_monitoring has made a
\* monitor task again
C34_RestartedAfterCloseAll ==
    /\ clock = 0
    /\ forced # {}
    /\ monPc = "sleep"
    /\ monitors = 1

=============================================================================
